---- MODULE Spec2Model ----
(***************************************************************************)
(* EventHandler of xremap (src/src/event_handler.rs): the stateful core    *)
(* that turns input events into a list of Actions.  The handler is         *)
(* single-threaded; one step of the model is one call of on_events, or a   *)
(* step of its environment (time passing, the focused application          *)
(* changing).                                                              *)
(***************************************************************************)
EXTENDS Integers, Sequences, FiniteSets, TLC

(***************************************************************************)
(* Bounds of the model.                                                    *)
(***************************************************************************)
\* The clock (Instant::now(), in ticks) stops advancing at MaxTime.
MaxTime == 2
\* At most MaxHeld input keys are physically down at the same time.
MaxHeld == 2
\* Longest batch of events handed to one on_events call (SpecRel).
MaxBatch == 2
\* Failures of timerfd calls in one run.
MaxFailures == 1

(***************************************************************************)
(* Option<T>: None is the empty sequence, Some(x) the sequence <<x>>.      *)
(***************************************************************************)
None == << >>
Some(x) == << x >>
IsSome(o) == Len(o) > 0
Unwrap(o) == o[1]

(***************************************************************************)
(* InputEvent#value                                                        *)
(***************************************************************************)
RELEASE == 0
PRESS == 1
REPEAT == 2

is_pressed(value) == value = PRESS \/ value = REPEAT

DISGUISED_EVENT_OFFSETTER == 59974

\* u16 arithmetic of the scancodes: 2^16.  An overflow wraps in a build
\* without overflow checks and panics in a build with them.
U16 == 65536

(***************************************************************************)
(* evdev scancodes of the keys used (evdev::Key).                          *)
(***************************************************************************)
KEY_ESC == 1
KEY_Y == 21
KEY_LEFTCTRL == 29
KEY_A == 30
KEY_F == 33
KEY_LEFTSHIFT == 42
KEY_Z == 44
KEY_X == 45
KEY_B == 48
KEY_RIGHTSHIFT == 54
KEY_LEFTALT == 56
KEY_SPACE == 57
KEY_CAPSLOCK == 58
KEY_RIGHTCTRL == 97
KEY_RIGHTALT == 100
KEY_LEFTMETA == 125
KEY_RIGHTMETA == 126
KEY_FIND == 136

\* Relative axes (evdev::RelativeAxisType codes).
REL_X == 0
REL_Z == 2
REL_WHEEL == 8

MODIFIER_KEYS ==
    { KEY_LEFTSHIFT, KEY_RIGHTSHIFT, KEY_LEFTCTRL, KEY_RIGHTCTRL,
      KEY_LEFTALT, KEY_RIGHTALT, KEY_LEFTMETA, KEY_RIGHTMETA }

(***************************************************************************)
(* Modifier, KeyPress, KeymapAction, Remap, OverrideEntry, ModmapAction    *)
(* (crate::config, used by the handler).                                   *)
(***************************************************************************)
ModShift == [kind |-> "Shift"]
ModControl == [kind |-> "Control"]
ModAlt == [kind |-> "Alt"]
ModWindows == [kind |-> "Windows"]
ModKey(k) == [kind |-> "Key", key |-> k]

KeyPress(k, mods) == [key |-> k, modifiers |-> mods]

ActKeyPress(kp) == [type |-> "KeyPress", key_press |-> kp]
ActRemap(table, timeout, timeout_key) ==
    [type |-> "Remap", remap |-> table, timeout |-> timeout, timeout_key |-> timeout_key]
ActLaunch(cmd) == [type |-> "Launch", command |-> cmd]
ActSetMode(m) == [type |-> "SetMode", mode |-> m]
ActSetMark(b) == [type |-> "SetMark", set |-> b]
ActWithMark(kp) == [type |-> "WithMark", key_press |-> kp]
ActEscapeNextKey(b) == [type |-> "EscapeNextKey", escape_next_key |-> b]
ActSetExtraModifiers(keys) == [type |-> "SetExtraModifiers", keys |-> keys]

\* A keymap row: application and mode are Options.
Entry(mods, actions, exact, application, mode) ==
    [modifiers |-> mods, actions |-> actions, exact_match |-> exact,
     application |-> application, mode |-> mode]

ModmapKey(k) == [type |-> "Key", key |-> k]
ModmapMultiPurposeKey(held, alone, alone_timeout) ==
    [type |-> "MultiPurposeKey", held |-> held, alone |-> alone, alone_timeout |-> alone_timeout]
ModmapPressReleaseKey(press, release) ==
    [type |-> "PressReleaseKey", press |-> press, release |-> release]

\* Application matcher: only / not are Options of sets of application names.
AppOnly(names) == [only |-> Some(names), not |-> None]
AppNot(names) == [only |-> None, not |-> Some(names)]

(***************************************************************************)
(* Event (src/src/event.rs) and Action (src/src/action.rs).                *)
(***************************************************************************)
EvKey(code, value) == [type |-> "KeyEvent", code |-> code, value |-> value]
EvRelative(code, value) == [type |-> "RelativeEvent", code |-> code, value |-> value]
EvOther == [type |-> "OtherEvents"]
EvOverrideTimeout == [type |-> "OverrideTimeout"]

KeyEventAction(key, value) == [type |-> "KeyEvent", key |-> key, value |-> value]
RelativeEventAction(code, value) == [type |-> "RelativeEvent", code |-> code, value |-> value]
MouseMovementEventCollection(events) == [type |-> "MouseMovementEventCollection", events |-> events]
InputEventAction == [type |-> "InputEvent"]
CommandAction(cmd) == [type |-> "Command", command |-> cmd]
DelayAction == [type |-> "Delay"]

(***************************************************************************)
(* HashMap helpers.  A HashMap<K,V> is a function on its key set.          *)
(***************************************************************************)
EmptyMap == [x \in {} |-> 0]
MapInsert(m, k, v) == [x \in (DOMAIN m) \cup {k} |-> IF x = k THEN v ELSE m[x]]
MapRemove(m, k) == [x \in (DOMAIN m) \ {k} |-> m[x]]

\* The elements of set S in the order in which sequence ord lists them:
\* the iteration order of a HashSet / HashMap, which the program does not fix.
IterOrder(S, ord) == LET In(k) == k \in S IN SelectSeq(ord, In)

RECURSIVE SeqOfSet(_)
SeqOfSet(S) ==
    IF S = {} THEN << >>
    ELSE LET m == CHOOSE x \in S : \A y \in S : x <= y
         IN << m >> \o SeqOfSet(S \ {m})

\* All orderings of the finite set S, as sequences.
Orderings(S) ==
    LET base == SeqOfSet(S)
    IN { [i \in 1..Len(base) |-> p[base[i]]] : p \in Permutations(S) }

(***************************************************************************)
(* State.                                                                  *)
(***************************************************************************)
VARIABLES
    \* --- EventHandler fields ---
    modifiers,            \* HashSet<Key>: currently pressed modifier keys
    extra_modifiers,      \* HashSet<Key>
    pressed_keys,         \* HashMap<Key, Key>
    application_cache,    \* Option<String>
    multi_purpose_keys,   \* HashMap<Key, MultiPurposeKeyState>
    override_remaps,      \* Vec<HashMap<Key, Vec<OverrideEntry>>>
    override_timeout_key, \* Option<Key>
    override_timer,       \* TimerFd: TRUE iff armed
    mode,                 \* String
    mark_set,             \* bool
    escape_next_key,      \* bool
    actions,              \* Vec<Action>: buffered actions
    \* --- environment of the handler ---
    config,               \* the Config borrowed by every on_events call
    input_device,         \* keys and relative axes the grabbed device reports
    application,          \* Option<String>: what current_application() returns
    now,                  \* Instant::now(), in ticks
    timer_fault,          \* TRUE iff timerfd set/unset calls fail
    overflow_checks,      \* TRUE iff the build panics on integer overflow
    physical,             \* keys physically down (well-formed input)
    \* --- observation of the last on_events call ---
    events,               \* the batch handed to it (<< >> after another step)
    returned,             \* its result
    before,               \* the handler and its environment when it was called
    \* --- history (what an observer of the input and output streams knows) ---
    down,                 \* emitted key -> presses minus releases emitted so far
    pressed_as,           \* physical key down -> the key on_key_event sent for its PRESS
    consumed,             \* physical keys down whose PRESS a keymap entry matched
    cycle,                \* multi-purpose key down -> [deadline, others, plain, late_repeat]
    timer_failures        \* the number of on_events calls that returned Err so far

handler_vars ==
    << modifiers, extra_modifiers, pressed_keys, application_cache,
       multi_purpose_keys, override_remaps, override_timeout_key, override_timer,
       mode, mark_set, escape_next_key, actions >>
env_vars == << config, input_device, application, now, timer_fault, overflow_checks,
              physical >>
obs_vars == << events, returned, before, down, pressed_as, consumed, cycle, timer_failures >>
vars == << handler_vars, env_vars, obs_vars >>

\* The handler as one record (self), with the locals of one on_events call:
\*   iter  the iteration order of its hash containers during the call,
\*   err   an Err(..) is propagating (the ? operator),
\*   panic  the thread panicked (err is set with it: nothing runs after it),
\*   ret   the bool returned by the last on_key_event,
\*   mouse_movement_collection  the local of on_events,
\*   key_values  the local of on_key_event,
\*   trace  what the "Apply keymap" loop did with each (key, value),
\*   probes  the number of current_application() calls,
\* and the history variables pressed_as, consumed, cycle.
Self(ord) ==
    [ modifiers |-> modifiers,
      extra_modifiers |-> extra_modifiers,
      pressed_keys |-> pressed_keys,
      application_cache |-> application_cache,
      multi_purpose_keys |-> multi_purpose_keys,
      override_remaps |-> override_remaps,
      override_timeout_key |-> override_timeout_key,
      override_timer |-> override_timer,
      mode |-> mode,
      mark_set |-> mark_set,
      escape_next_key |-> escape_next_key,
      actions |-> actions,
      iter |-> ord,
      err |-> FALSE,
      panic |-> FALSE,
      ret |-> FALSE,
      mouse_movement_collection |-> << >>,
      key_values |-> << >>,
      trace |-> << >>,
      probes |-> 0,
      pressed_as |-> pressed_as,
      consumed |-> consumed,
      cycle |-> cycle ]

(***************************************************************************)
(* EventHandler: emission                                                  *)
(***************************************************************************)
send_action(h, action) == [h EXCEPT !.actions = Append(@, action)]

send_key(h, key, value) == send_action(h, KeyEventAction(key, value))

RECURSIVE send_keys(_, _, _)
send_keys(h, keys, value) ==
    IF keys = << >> THEN h
    ELSE send_keys(send_key(h, Head(keys), value), Tail(keys), value)

run_command(h, command) == send_action(h, CommandAction(command))

(***************************************************************************)
(* EventHandler: override timer                                            *)
(***************************************************************************)
\* Mutant of remove_override: the timer is left armed.
remove_override_keeps_timer(h) ==
    IF timer_fault THEN [h EXCEPT !.err = TRUE]
    ELSE [h EXCEPT !.override_remaps = << >>,
                   !.override_timeout_key = None]

\* Mutant of remove_override: the timeout key is kept.
remove_override_keeps_key(h) ==
    IF timer_fault THEN [h EXCEPT !.err = TRUE]
    ELSE [h EXCEPT !.override_timer = FALSE,
                   !.override_remaps = << >>]

remove_override(h) ==
    IF timer_fault THEN [h EXCEPT !.err = TRUE]      \* self.override_timer.unset()?
    ELSE [h EXCEPT !.override_timer = FALSE,
                   !.override_remaps = << >>,
                   !.override_timeout_key = None]

timeout_override(h) ==
    LET h1 == IF IsSome(h.override_timeout_key)
              THEN LET key == Unwrap(h.override_timeout_key)
                   IN send_key(send_key(h, key, PRESS), key, RELEASE)
              ELSE h
    IN remove_override(h1)

(***************************************************************************)
(* EventHandler: modifiers                                                 *)
(***************************************************************************)
\* Mutant of update_modifier: a REPEAT removes the key like a RELEASE.
update_modifier_repeat_releases(h, key, value) ==
    IF value = PRESS THEN [h EXCEPT !.modifiers = @ \cup {key}]
    ELSE [h EXCEPT !.modifiers = @ \ {key}]

update_modifier(h, key, value) ==
    IF value = PRESS THEN [h EXCEPT !.modifiers = @ \cup {key}]
    ELSE IF value = RELEASE THEN [h EXCEPT !.modifiers = @ \ {key}]
    ELSE h

\* Mutant of match_modifier: Control is matched by the right key only.
match_modifier_rightctrl(h, modifier) ==
    CASE modifier.kind = "Shift" ->
            KEY_LEFTSHIFT \in h.modifiers \/ KEY_RIGHTSHIFT \in h.modifiers
      [] modifier.kind = "Control" -> KEY_RIGHTCTRL \in h.modifiers
      [] modifier.kind = "Alt" ->
            KEY_LEFTALT \in h.modifiers \/ KEY_RIGHTALT \in h.modifiers
      [] modifier.kind = "Windows" ->
            KEY_LEFTMETA \in h.modifiers \/ KEY_RIGHTMETA \in h.modifiers
      [] modifier.kind = "Key" -> modifier.key \in h.modifiers

match_modifier(h, modifier) ==
    CASE modifier.kind = "Shift" ->
            KEY_LEFTSHIFT \in h.modifiers \/ KEY_RIGHTSHIFT \in h.modifiers
      [] modifier.kind = "Control" ->
            KEY_LEFTCTRL \in h.modifiers \/ KEY_RIGHTCTRL \in h.modifiers
      [] modifier.kind = "Alt" ->
            KEY_LEFTALT \in h.modifiers \/ KEY_RIGHTALT \in h.modifiers
      [] modifier.kind = "Windows" ->
            KEY_LEFTMETA \in h.modifiers \/ KEY_RIGHTMETA \in h.modifiers
      [] modifier.kind = "Key" -> modifier.key \in h.modifiers

contains_modifier(mods, key) ==
    \E i \in 1..Len(mods) :
        CASE mods[i].kind = "Shift" -> key = KEY_LEFTSHIFT \/ key = KEY_RIGHTSHIFT
          [] mods[i].kind = "Control" -> key = KEY_LEFTCTRL \/ key = KEY_RIGHTCTRL
          [] mods[i].kind = "Alt" -> key = KEY_LEFTALT \/ key = KEY_RIGHTALT
          [] mods[i].kind = "Windows" -> key = KEY_LEFTMETA \/ key = KEY_RIGHTMETA
          [] mods[i].kind = "Key" -> key = mods[i].key

ModifierKey(modifier) ==
    CASE modifier.kind = "Shift" -> KEY_LEFTSHIFT
      [] modifier.kind = "Control" -> KEY_LEFTCTRL
      [] modifier.kind = "Alt" -> KEY_LEFTALT
      [] modifier.kind = "Windows" -> KEY_LEFTMETA
      [] modifier.kind = "Key" -> modifier.key

\* Return (extra_modifiers, missing_modifiers)
diff_modifiers(h, mods) ==
    LET Extra(key) == ~contains_modifier(mods, key)
        idx == { i \in 1..Len(mods) : ~match_modifier(h, mods[i]) }
        MissingAt(i) == i \in idx
        pos == SelectSeq([i \in 1..Len(mods) |-> i], MissingAt)
    IN [ extra |-> SelectSeq(IterOrder(h.modifiers, h.iter), Extra),
         missing |-> [j \in 1..Len(pos) |-> ModifierKey(mods[pos[j]])] ]

(***************************************************************************)
(* MultiPurposeKeyState                                                    *)
(***************************************************************************)
MultiPurposeKeyState(held, alone, alone_timeout_at) ==
    [held |-> held, alone |-> alone, alone_timeout_at |-> alone_timeout_at]

\* Mutant of MultiPurposeKeyState_repeat: the repeat after the timeout sends
\* the held press but leaves the timeout in place.
MultiPurposeKeyState_repeat_keeps_timeout(state) ==
    IF IsSome(state.alone_timeout_at)
    THEN IF now < Unwrap(state.alone_timeout_at)
         THEN [state |-> state, keys |-> << >>]
         ELSE [state |-> state, keys |-> << <<state.held, PRESS>> >>]
    ELSE [state |-> state, keys |-> << <<state.held, REPEAT>> >>]

MultiPurposeKeyState_repeat(state) ==
    IF IsSome(state.alone_timeout_at)
    THEN IF now < Unwrap(state.alone_timeout_at)
         THEN [state |-> state, keys |-> << >>]                  \* still delay the press
         ELSE [state |-> [state EXCEPT !.alone_timeout_at = None],  \* timeout
               keys |-> << <<state.held, PRESS>> >>]
    ELSE [state |-> state, keys |-> << <<state.held, REPEAT>> >>]

\* Mutant of MultiPurposeKeyState_release: a release at exactly the timeout
\* still counts as alone.
MultiPurposeKeyState_release_inclusive(state) ==
    IF IsSome(state.alone_timeout_at)
    THEN IF now <= Unwrap(state.alone_timeout_at)
         THEN << <<state.alone, PRESS>>, <<state.alone, RELEASE>> >>
         ELSE << <<state.held, PRESS>>, <<state.held, RELEASE>> >>
    ELSE << <<state.held, RELEASE>> >>

MultiPurposeKeyState_release(state) ==
    IF IsSome(state.alone_timeout_at)
    THEN IF now < Unwrap(state.alone_timeout_at)
         THEN << <<state.alone, PRESS>>, <<state.alone, RELEASE>> >>
         ELSE << <<state.held, PRESS>>, <<state.held, RELEASE>> >>
    ELSE << <<state.held, RELEASE>> >>

\* Mutant of MultiPurposeKeyState_force_held: the held press is sent but the
\* key stays pending.
MultiPurposeKeyState_force_held_pending(state) ==
    IF IsSome(state.alone_timeout_at)
    THEN [state |-> state, keys |-> << <<state.held, PRESS>> >>]
    ELSE [state |-> state, keys |-> << >>]

MultiPurposeKeyState_force_held(state) ==
    IF IsSome(state.alone_timeout_at)
    THEN [state |-> [state EXCEPT !.alone_timeout_at = None],
          keys |-> << <<state.held, PRESS>> >>]
    ELSE [state |-> state, keys |-> << >>]

(***************************************************************************)
(* EventHandler: application matching                                      *)
(***************************************************************************)
\* Returns the handler (cache filled) and the verdict.
match_application(h, application_matcher) ==
    LET h1 == IF h.application_cache = None
              THEN [h EXCEPT !.application_cache =
                                 IF IsSome(application) THEN Some(Unwrap(application))
                                 ELSE Some(""),
                             !.probes = @ + 1]
              ELSE h
        app == Unwrap(h1.application_cache)
    IN [ h |-> h1,
         ok |-> IF IsSome(application_matcher.only)
                THEN app \in Unwrap(application_matcher.only)
                ELSE IF IsSome(application_matcher.not)
                THEN app \notin Unwrap(application_matcher.not)
                ELSE FALSE ]

(***************************************************************************)
(* EventHandler: modmap                                                    *)
(***************************************************************************)
RECURSIVE find_modmap_from(_, _, _)
find_modmap_from(h, key, i) ==
    IF i > Len(config.modmap) THEN [h |-> h, found |-> None]
    ELSE LET modmap == config.modmap[i]
         IN IF key \in DOMAIN modmap.remap
            THEN IF IsSome(modmap.application)
                 THEN LET m == match_application(h, Unwrap(modmap.application))
                      IN IF ~m.ok THEN find_modmap_from(m.h, key, i + 1)
                         ELSE [h |-> m.h, found |-> Some(modmap.remap[key])]
                 ELSE [h |-> h, found |-> Some(modmap.remap[key])]
            ELSE find_modmap_from(h, key, i + 1)

find_modmap(h, key) == find_modmap_from(h, key, 1)

\* Mutant of maintain_pressed_keys: the release is not rewritten to the key
\* recorded at the press.
maintain_pressed_keys_norewrite(h, key, value) ==
    LET evs == h.key_values
    IN IF h.err THEN h
       ELSE IF Len(evs) # 1 \/ value # evs[1][2] THEN h
       ELSE IF value = PRESS
       THEN [h EXCEPT !.pressed_keys = MapInsert(@, key, evs[1][1])]
       ELSE [h EXCEPT !.pressed_keys = IF value = RELEASE THEN MapRemove(@, key) ELSE @]

\* Repeat/Release what's originally pressed even if remapping changes while holding it
\* (events is h.key_values; nothing is done once an Err propagates).
maintain_pressed_keys(h, key, value) ==
    LET evs == h.key_values
    IN IF h.err THEN h
       ELSE IF Len(evs) # 1 \/ value # evs[1][2] THEN h
       ELSE IF value = PRESS
       THEN [h EXCEPT !.pressed_keys = MapInsert(@, key, evs[1][1])]
       ELSE [h EXCEPT !.key_values = IF key \in DOMAIN h.pressed_keys
                                     THEN << <<h.pressed_keys[key], evs[1][2]>> >>
                                     ELSE @,
                      !.pressed_keys = IF value = RELEASE THEN MapRemove(@, key) ELSE @]

RECURSIVE force_held_all(_, _, _)
force_held_all(h, keys, flushed) ==
    IF keys = << >> THEN [h |-> h, keys |-> flushed]
    ELSE LET r == MultiPurposeKeyState_force_held(h.multi_purpose_keys[Head(keys)])
         IN force_held_all([h EXCEPT !.multi_purpose_keys[Head(keys)] = r.state],
                           Tail(keys), flushed \o r.keys)

\* Mutant of flush_timeout_keys: a REPEAT flushes too.
flush_timeout_keys_on_repeat(h) ==
    IF h.err \/ DOMAIN h.multi_purpose_keys = {} THEN h
    ELSE IF \E i \in 1..Len(h.key_values) : is_pressed(h.key_values[i][2])
    THEN LET f == force_held_all(h, IterOrder(DOMAIN h.multi_purpose_keys, h.iter), << >>)
         IN [f.h EXCEPT !.key_values = f.keys \o @]
    ELSE h

\* flush_timeout_keys on h.key_values, with the guard of its call (line 120):
\* if !self.multi_purpose_keys.is_empty().
flush_timeout_keys(h) ==
    IF h.err \/ DOMAIN h.multi_purpose_keys = {} THEN h
    ELSE IF \E i \in 1..Len(h.key_values) : h.key_values[i][2] = PRESS
    THEN LET f == force_held_all(h, IterOrder(DOMAIN h.multi_purpose_keys, h.iter), << >>)
         IN [f.h EXCEPT !.key_values = f.keys \o @]
    ELSE h

(***************************************************************************)
(* EventHandler: keymap actions                                            *)
(***************************************************************************)
is_remap(acts) == \A i \in 1..Len(acts) : acts[i].type = "Remap"

TaggedAction(action, exact_match) == [action |-> action, exact_match |-> exact_match]

with_extra_modifiers(acts, extra, exact_match) ==
    LET first == IF Len(extra) > 0
                 \* Virtually release extra modifiers so that they won't be physically released on KeyPress
                 THEN << TaggedAction(ActSetExtraModifiers(extra), exact_match) >>
                 ELSE << >>
        body == [i \in 1..Len(acts) |-> TaggedAction(acts[i], exact_match)]
        last == IF Len(extra) > 0
                \* Resurrect the modifier status
                THEN << TaggedAction(ActSetExtraModifiers(<< >>), exact_match) >>
                ELSE << >>
    IN first \o body \o last

\* crate::config::keymap::build_override_table: the rows of a Remap, a
\* sequence of [key_press, actions], grouped by key.
build_override_table(remap, exact_match) ==
    LET keys == { remap[i].key_press.key : i \in 1..Len(remap) }
        Row(i) == [modifiers |-> remap[i].key_press.modifiers,
                   actions |-> remap[i].actions,
                   exact_match |-> exact_match]
    IN [k \in keys |->
          LET Mine(i) == remap[i].key_press.key = k
              idx == SelectSeq([i \in 1..Len(remap) |-> i], Mine)
          IN [j \in 1..Len(idx) |-> Row(idx[j])]]

\* Mutant of send_key_press: every held modifier key is released around the main key.
send_key_press_releases_held(h, key_press) ==
    LET d == diff_modifiers(h, key_press.modifiers)
        KeepExtra(key) == key \in MODIFIER_KEYS /\ key \notin h.extra_modifiers
        KeepMissing(key) == key \in MODIFIER_KEYS
        extra == SelectSeq(IterOrder(h.modifiers, h.iter), KeepExtra)
        missing == SelectSeq(d.missing, KeepMissing)
        h1 == send_keys(h, missing, PRESS)
        h2 == send_keys(h1, extra, RELEASE)
        h3 == send_key(h2, key_press.key, PRESS)
        h4 == send_key(h3, key_press.key, RELEASE)
        h5 == send_action(h4, DelayAction)
        h6 == send_keys(h5, extra, PRESS)
    IN send_keys(h6, missing, RELEASE)

\* Mutant of send_key_press: the missing modifiers are released before the
\* extra ones are pressed again.
send_key_press_restores_missing_first(h, key_press) ==
    LET d == diff_modifiers(h, key_press.modifiers)
        KeepExtra(key) == key \in MODIFIER_KEYS /\ key \notin h.extra_modifiers
        KeepMissing(key) == key \in MODIFIER_KEYS
        extra == SelectSeq(d.extra, KeepExtra)
        missing == SelectSeq(d.missing, KeepMissing)
        h1 == send_keys(h, missing, PRESS)
        h2 == send_keys(h1, extra, RELEASE)
        h3 == send_key(h2, key_press.key, PRESS)
        h4 == send_key(h3, key_press.key, RELEASE)
        h5 == send_action(h4, DelayAction)
        h6 == send_keys(h5, missing, RELEASE)
    IN send_keys(h6, extra, PRESS)

send_key_press(h, key_press) ==
    LET d == diff_modifiers(h, key_press.modifiers)
        KeepExtra(key) == key \in MODIFIER_KEYS /\ key \notin h.extra_modifiers
        KeepMissing(key) == key \in MODIFIER_KEYS
        extra == SelectSeq(d.extra, KeepExtra)
        missing == SelectSeq(d.missing, KeepMissing)
        \* Emulate the modifiers of KeyPress
        h1 == send_keys(h, missing, PRESS)
        h2 == send_keys(h1, extra, RELEASE)
        \* Press the main key
        h3 == send_key(h2, key_press.key, PRESS)
        h4 == send_key(h3, key_press.key, RELEASE)
        h5 == send_action(h4, DelayAction)
        \* Resurrect the original modifiers
        h6 == send_keys(h5, extra, PRESS)
    IN send_keys(h6, missing, RELEASE)

with_mark(h, key_press) ==
    IF h.mark_set /\ ~match_modifier(h, ModShift)
    THEN KeyPress(key_press.key, Append(key_press.modifiers, ModShift))
    ELSE key_press

RECURSIVE SetOfSeq(_)
SetOfSeq(s) == IF s = << >> THEN {} ELSE {Head(s)} \cup SetOfSeq(Tail(s))

\* Mutant of dispatch_action: every Remap with a timeout arms the timer.
dispatch_action_rearms(h, tagged, key) ==
    LET action == tagged.action
    IN CASE action.type = "KeyPress" -> send_key_press(h, action.key_press)
         [] action.type = "Remap" ->
              LET h1 == [h EXCEPT !.override_remaps =
                            Append(@, build_override_table(action.remap, tagged.exact_match))]
              IN IF IsSome(action.timeout)
                 THEN IF timer_fault
                      THEN [h1 EXCEPT !.err = TRUE]
                      ELSE [h1 EXCEPT !.override_timer = TRUE,
                                      !.override_timeout_key =
                                          IF IsSome(action.timeout_key)
                                          THEN action.timeout_key
                                          ELSE Some(key)]
                 ELSE h1
         [] action.type = "Launch" -> run_command(h, action.command)
         [] action.type = "SetMode" -> [h EXCEPT !.mode = action.mode]
         [] action.type = "SetMark" -> [h EXCEPT !.mark_set = action.set]
         [] action.type = "WithMark" -> send_key_press(h, with_mark(h, action.key_press))
         [] action.type = "EscapeNextKey" ->
              [h EXCEPT !.escape_next_key = action.escape_next_key]
         [] action.type = "SetExtraModifiers" ->
              [h EXCEPT !.extra_modifiers = SetOfSeq(action.keys)]

dispatch_action(h, tagged, key) ==
    LET action == tagged.action
    IN CASE action.type = "KeyPress" -> send_key_press(h, action.key_press)
         [] action.type = "Remap" ->
              LET set_timeout == h.override_remaps = << >>
                  h1 == [h EXCEPT !.override_remaps =
                            Append(@, build_override_table(action.remap, tagged.exact_match))]
              IN IF set_timeout /\ IsSome(action.timeout)
                 THEN IF timer_fault
                      THEN [h1 EXCEPT !.err = TRUE]     \* override_timer.unset()? / set()?
                      ELSE [h1 EXCEPT !.override_timer = TRUE,
                                      !.override_timeout_key =
                                          IF IsSome(action.timeout_key)
                                          THEN action.timeout_key
                                          ELSE Some(key)]
                 ELSE h1
         [] action.type = "Launch" -> run_command(h, action.command)
         [] action.type = "SetMode" -> [h EXCEPT !.mode = action.mode]
         [] action.type = "SetMark" -> [h EXCEPT !.mark_set = action.set]
         [] action.type = "WithMark" -> send_key_press(h, with_mark(h, action.key_press))
         [] action.type = "EscapeNextKey" ->
              [h EXCEPT !.escape_next_key = action.escape_next_key]
         [] action.type = "SetExtraModifiers" ->
              [h EXCEPT !.extra_modifiers = SetOfSeq(action.keys)]

\* The loop stops at the first Err (dispatch_action(..)?).
RECURSIVE dispatch_actions(_, _, _)
dispatch_actions(h, tagged_actions, key) ==
    IF h.err \/ tagged_actions = << >> THEN h
    ELSE dispatch_actions(dispatch_action(h, Head(tagged_actions), key),
                          Tail(tagged_actions), key)

\* The Vec<(Key, i32)> it returns is left in h.key_values.
dispatch_keys(h, key_action, key, value) ==
    CASE key_action.type = "Key" ->
           [h EXCEPT !.key_values = << <<key_action.key, value>> >>]
      [] key_action.type = "MultiPurposeKey" ->
           IF value = PRESS
           THEN [h EXCEPT !.multi_purpose_keys =
                              MapInsert(@, key,
                                  MultiPurposeKeyState(key_action.held, key_action.alone,
                                                       Some(now + key_action.alone_timeout))),
                          !.key_values = << >>]              \* delay the press
           ELSE IF value = REPEAT /\ key \in DOMAIN h.multi_purpose_keys
           THEN LET r == MultiPurposeKeyState_repeat(h.multi_purpose_keys[key])
                IN [h EXCEPT !.multi_purpose_keys[key] = r.state, !.key_values = r.keys]
           ELSE IF value = RELEASE /\ key \in DOMAIN h.multi_purpose_keys
           THEN [h EXCEPT !.multi_purpose_keys = MapRemove(@, key),
                          !.key_values = MultiPurposeKeyState_release(h.multi_purpose_keys[key])]
           ELSE [h EXCEPT !.key_values = << <<key, value>> >>]  \* fallthrough on state discrepancy
      [] key_action.type = "PressReleaseKey" ->
           LET hook == IF value = PRESS THEN key_action.press ELSE key_action.release
           IN [ (IF value = PRESS \/ value = RELEASE
                 THEN dispatch_actions(h, [i \in 1..Len(hook) |-> TaggedAction(hook[i], FALSE)], key)
                 ELSE h)
                EXCEPT !.key_values = << <<key, value>> >> ]

(***************************************************************************)
(* EventHandler: keymap lookup                                             *)
(***************************************************************************)
\* The two passes (for exact_match in [true, false]) over the entries found
\* in the override tables: entries is what is left of the pass, all the
\* entries a pass starts with.
RECURSIVE override_pass(_, _, _, _, _)
override_pass(h, all, entries, exact_match, remaps) ==
    IF entries = << >>
    THEN IF remaps # << >> THEN Some(remaps)
         ELSE IF exact_match THEN override_pass(h, all, all, FALSE, << >>)
         ELSE None
    ELSE LET entry == Head(entries)
             d == diff_modifiers(h, entry.modifiers)
         IN IF entry.exact_match /\ ~exact_match
            THEN override_pass(h, all, Tail(entries), exact_match, remaps)
            ELSE IF (exact_match /\ Len(d.extra) > 0) \/ Len(d.missing) > 0
            THEN override_pass(h, all, Tail(entries), exact_match, remaps)
            ELSE LET acts == with_extra_modifiers(entry.actions, d.extra, entry.exact_match)
                 IN IF remaps = << >> /\ ~is_remap(entry.actions) THEN Some(acts)
                    ELSE IF is_remap(entry.actions)
                    THEN override_pass(h, all, Tail(entries), exact_match, remaps \o acts)
                    ELSE override_pass(h, all, Tail(entries), exact_match, remaps)

\* The two passes over the entries of config.keymap_table for the key.
RECURSIVE keymap_pass(_, _, _, _, _)
keymap_pass(h, all, entries, exact_match, remaps) ==
    IF entries = << >>
    THEN IF remaps # << >> THEN [h |-> h, found |-> Some(remaps)]
         ELSE IF exact_match THEN keymap_pass(h, all, all, FALSE, << >>)
         ELSE [h |-> h, found |-> None]
    ELSE LET entry == Head(entries)
             d == diff_modifiers(h, entry.modifiers)
         IN IF entry.exact_match /\ ~exact_match
            THEN keymap_pass(h, all, Tail(entries), exact_match, remaps)
            ELSE IF (exact_match /\ Len(d.extra) > 0) \/ Len(d.missing) > 0
            THEN keymap_pass(h, all, Tail(entries), exact_match, remaps)
            ELSE LET m == IF IsSome(entry.application)
                          THEN match_application(h, Unwrap(entry.application))
                          ELSE [h |-> h, ok |-> TRUE]
                 IN IF ~m.ok
                    THEN keymap_pass(m.h, all, Tail(entries), exact_match, remaps)
                    ELSE IF IsSome(entry.mode) /\ m.h.mode \notin Unwrap(entry.mode)
                    THEN keymap_pass(m.h, all, Tail(entries), exact_match, remaps)
                    ELSE LET acts == with_extra_modifiers(entry.actions, d.extra, entry.exact_match)
                         IN IF remaps = << >> /\ ~is_remap(entry.actions)
                            THEN [h |-> m.h, found |-> Some(acts)]
                            ELSE IF is_remap(entry.actions)
                            THEN keymap_pass(m.h, all, Tail(entries), exact_match, remaps \o acts)
                            ELSE keymap_pass(m.h, all, Tail(entries), exact_match, remaps)

\* The entries for key of all stacked override tables, in stack order.
RECURSIVE override_entries(_, _)
override_entries(tables, key) ==
    IF tables = << >> THEN << >>
    ELSE (IF key \in DOMAIN Head(tables) THEN Head(tables)[key] ELSE << >>)
         \o override_entries(Tail(tables), key)

\* Mutant of find_static_keymap: the pass with exact_match = true is left out.
find_static_keymap_loose_only(h, key) ==
    IF h.err THEN [h |-> h, found |-> None]
    ELSE IF key \in DOMAIN config.keymap_table
    THEN keymap_pass(h, config.keymap_table[key], config.keymap_table[key], FALSE, << >>)
    ELSE [h |-> h, found |-> None]

\* Mutant of find_static_keymap: the entries are tested against the configured
\* default mode, whatever the current one.
find_static_keymap_default_mode(h, key) ==
    IF h.err THEN [h |-> h, found |-> None]
    ELSE IF key \in DOMAIN config.keymap_table
    THEN LET r == keymap_pass([h EXCEPT !.mode = config.mode], config.keymap_table[key],
                              config.keymap_table[key], TRUE, << >>)
         IN [h |-> [r.h EXCEPT !.mode = h.mode], found |-> r.found]
    ELSE [h |-> h, found |-> None]

\* The static keymap (lines 424-461); not reached when timeout_override()? failed.
find_static_keymap(h, key) ==
    IF h.err THEN [h |-> h, found |-> None]
    ELSE IF key \in DOMAIN config.keymap_table
    THEN keymap_pass(h, config.keymap_table[key], config.keymap_table[key], TRUE, << >>)
    ELSE [h |-> h, found |-> None]

\* Mutant of find_keymap: the stack is kept when the key has override entries.
find_keymap_keeps_stack(h, key) ==
    IF h.override_remaps # << >>
    THEN LET entries == override_entries(h.override_remaps, key)
             h1 == h
             found == IF entries # << >> /\ ~h1.err
                      THEN override_pass(h1, entries, entries, TRUE, << >>)
                      ELSE None
         IN IF h1.err THEN [h |-> h1, found |-> None]
            ELSE IF IsSome(found) THEN [h |-> h1, found |-> found]
            ELSE find_static_keymap(timeout_override(h1), key)
    ELSE find_static_keymap(h, key)

find_keymap(h, key) ==
    IF h.override_remaps # << >>
    THEN LET entries == override_entries(h.override_remaps, key)
             h1 == IF entries # << >> THEN remove_override(h) ELSE h
             found == IF entries # << >> /\ ~h1.err
                      THEN override_pass(h1, entries, entries, TRUE, << >>)
                      ELSE None
         IN IF h1.err THEN [h |-> h1, found |-> None]
            ELSE IF IsSome(found) THEN [h |-> h1, found |-> found]
            ELSE \* An override remap is set but not used. Flush the pending key.
                 find_static_keymap(timeout_override(h1), key)
    ELSE find_static_keymap(h, key)

(***************************************************************************)
(* EventHandler: on_key_event, on_relative_event, on_events                *)
(***************************************************************************)
\* One entry of h.trace: the loop handled (key, value) with rest pairs still to
\* come, in branch stage, and sent it as a KeyEvent (line 148) or not.
Traced(h, key, value, rest, stage, emitted) ==
    IF h.err THEN h
    ELSE [h EXCEPT !.trace = Append(@, [key |-> key, value |-> value, rest |-> rest,
                                        stage |-> stage, emitted |-> emitted])]

\* The end of the body of the "Apply keymap" loop (lines 140-148).
emit_key(h, key, value, event, rest, stage) ==
    IF key >= DISGUISED_EVENT_OFFSETTER /\ <<key, value>> = <<event.code, event.value>>
    THEN Traced([h EXCEPT !.ret = TRUE], key, value, rest, stage, FALSE)
    ELSE Traced(send_key(h, key, value), key, value, rest, stage, TRUE)

\* The body of the loop from the return of find_keymap, fk (lines 135-148).
apply_found(fk, key, value, event, rest) ==
    IF fk.h.err THEN fk.h
    ELSE IF IsSome(fk.found)
    THEN Traced(dispatch_actions(fk.h, Unwrap(fk.found), key),
                key, value, rest, "matched", FALSE)
    ELSE emit_key(fk.h, key, value, event, rest, "unmatched")

\* Mutant of apply_keymap: a virtual modifier is sent like a key of MODIFIER_KEYS.
RECURSIVE apply_keymap_sends_virtual(_, _)
apply_keymap_sends_virtual(h, event) ==
    IF h.err \/ h.key_values = << >> THEN h
    ELSE LET key == Head(h.key_values)[1]
             value == Head(h.key_values)[2]
             n == Len(h.key_values) - 1
             h1 == [h EXCEPT !.key_values = Tail(@)]
         IN apply_keymap_sends_virtual(
                IF key \in config.virtual_modifiers \/ key \in MODIFIER_KEYS
                THEN emit_key(update_modifier(h1, key, value), key, value, event, n, "modifier")
                ELSE IF is_pressed(value)
                THEN IF h1.escape_next_key
                     THEN emit_key([h1 EXCEPT !.escape_next_key = FALSE],
                                   key, value, event, n, "escaped")
                     ELSE apply_found(find_keymap(h1, key), key, value, event, n)
                ELSE emit_key(h1, key, value, event, n, "release"),
                event)

\* The "Apply keymap" loop over h.key_values (lines 126-149); stops at the
\* first Err.
RECURSIVE apply_keymap(_, _)
apply_keymap(h, event) ==
    IF h.err \/ h.key_values = << >> THEN h
    ELSE LET key == Head(h.key_values)[1]
             value == Head(h.key_values)[2]
             n == Len(h.key_values) - 1
             h1 == [h EXCEPT !.key_values = Tail(@)]
         IN apply_keymap(
                IF key \in config.virtual_modifiers
                THEN Traced(update_modifier(h1, key, value), key, value, n, "virtual", FALSE)
                ELSE IF key \in MODIFIER_KEYS
                THEN emit_key(update_modifier(h1, key, value), key, value, event, n, "modifier")
                ELSE IF is_pressed(value)
                THEN IF h1.escape_next_key
                     THEN emit_key([h1 EXCEPT !.escape_next_key = FALSE],
                                   key, value, event, n, "escaped")
                     ELSE apply_found(find_keymap(h1, key), key, value, event, n)
                ELSE emit_key(h1, key, value, event, n, "release"),
                event)

\* The (key, value) pairs of trace that belong to the cycle c of a
\* multi-purpose key, tallied into c: presses and releases of its held and of
\* its alone key (counted up to 2), a held REPEAT before any held PRESS, an
\* alone key after a held PRESS.
RECURSIVE tally(_, _)
tally(c, trace) ==
    IF trace = << >> THEN c
    ELSE LET e == Head(trace)
             Inc(n) == IF n < 2 THEN n + 1 ELSE n
         IN tally(IF e.key = c.held
                  THEN IF e.value = PRESS THEN [c EXCEPT !.held_presses = Inc(@)]
                       ELSE IF e.value = RELEASE THEN [c EXCEPT !.held_releases = Inc(@)]
                       ELSE [c EXCEPT !.early_repeat = @ \/ c.held_presses = 0]
                  ELSE IF e.key = c.alone
                  THEN IF e.value = PRESS
                       THEN [c EXCEPT !.alone_presses = Inc(@),
                                      !.alone_after_held = @ \/ c.held_presses > 0]
                       ELSE IF e.value = RELEASE THEN [c EXCEPT !.alone_releases = Inc(@)]
                       ELSE c
                  ELSE c,
                  Tail(trace))

\* The history after on_key_event handled event: h0 is the handler before the
\* call, h after it, found the modmap action of the key.
observe(h0, h, event, found) ==
    LET p == event.code
        mine == SubSeq(h.trace, Len(h0.trace) + 1, Len(h.trace))
        last == mine[Len(mine)]
        is_mp == IsSome(found) /\ Unwrap(found).type = "MultiPurposeKey"
        others == [q \in DOMAIN h0.cycle |->
                     tally(IF q # p /\ event.value = PRESS
                           THEN [h0.cycle[q] EXCEPT !.others = TRUE,
                                                    !.plain = @ \/ ~is_mp]
                           ELSE IF q = p /\ event.value = REPEAT
                                         /\ now >= h0.cycle[q].deadline
                           THEN [h0.cycle[q] EXCEPT !.late_repeat = TRUE]
                           ELSE h0.cycle[q],
                           mine)]
    IN IF h.err THEN h
       ELSE IF event.value = PRESS
       THEN [h EXCEPT
               !.pressed_as = IF Len(mine) > 0 /\ last.emitted
                              THEN MapInsert(h0.pressed_as, p, last.key)
                              ELSE MapRemove(h0.pressed_as, p),
               !.consumed = IF Len(mine) > 0 /\ last.stage = "matched"
                            THEN h0.consumed \cup {p} ELSE h0.consumed \ {p},
               !.cycle = IF is_mp
                         THEN MapInsert(others, p,
                                 [deadline |-> now + Unwrap(found).alone_timeout,
                                  others |-> FALSE, plain |-> FALSE,
                                  late_repeat |-> FALSE,
                                  held |-> Unwrap(found).held,
                                  alone |-> Unwrap(found).alone,
                                  held_presses |-> 0, held_releases |-> 0,
                                  alone_presses |-> 0, alone_releases |-> 0,
                                  early_repeat |-> FALSE, alone_after_held |-> FALSE])
                         ELSE others]
       ELSE IF event.value = RELEASE
       THEN [h EXCEPT !.pressed_as = MapRemove(h0.pressed_as, p),
                      !.consumed = h0.consumed \ {p},
                      !.cycle = MapRemove(others, p)]
       ELSE [h EXCEPT !.cycle = others]

\* Handle EventType::KEY.  The bool it returns is left in h.ret.
on_key_event(h, event) ==
    LET key == event.code
        \* expire cache
        fm == find_modmap([h EXCEPT !.application_cache = None, !.ret = FALSE], key)
        h1 == IF IsSome(fm.found)
              THEN dispatch_keys(fm.h, Unwrap(fm.found), key, event.value)
              ELSE [fm.h EXCEPT !.key_values = << <<key, event.value>> >>]
        h2 == maintain_pressed_keys(h1, key, event.value)
        h3 == flush_timeout_keys(h2)
        h4 == apply_keymap(h3, event)
    IN IF h.err THEN h ELSE observe(h, h4, event, fm.found)

\* Mutant of disguised_key: a value of zero is disguised like a negative value.
disguised_key_zero_as_negative(event) ==
    LET Mul2(c) == (c * 2) % U16
        Add(a, b) == (a + b) % U16
    IN IF event.value >= 1
       THEN Add(Mul2(event.code), DISGUISED_EVENT_OFFSETTER)
       ELSE Add(Add(Mul2(event.code), 1), DISGUISED_EVENT_OFFSETTER)

\* The scancode a relative event is disguised with (lines 178-201), in u16.
disguised_key(event) ==
    LET Mul2(c) == (c * 2) % U16
        Add(a, b) == (a + b) % U16
    IN IF event.value >= 1
       THEN Add(Mul2(event.code), DISGUISED_EVENT_OFFSETTER)
       ELSE IF event.value <= -1
       THEN Add(Add(Mul2(event.code), 1), DISGUISED_EVENT_OFFSETTER)
       ELSE Add(Mul2(event.code), DISGUISED_EVENT_OFFSETTER)

\* The u16 arithmetic of lines 178-201 overflows.
disguise_overflows(event) ==
    event.code * 2 + (IF event.value <= -1 THEN 1 ELSE 0) + DISGUISED_EVENT_OFFSETTER >= U16

\* Mutant of on_relative_event_pressed: REL_Z is not a mouse movement.
on_relative_event_below_z(h, event) ==
    LET action == RelativeEventAction(event.code, event.value)
    IN IF h.err THEN h
       ELSE IF h.ret
       THEN IF event.code < 2
            THEN [h EXCEPT !.mouse_movement_collection = Append(@, action)]
            ELSE send_action(h, action)
       ELSE h

\* Mutant of on_relative_event_pressed: the original event is sent whatever the
\* press returned.
on_relative_event_always(h, event) ==
    LET action == RelativeEventAction(event.code, event.value)
    IN IF h.err THEN h
       ELSE IF TRUE
       THEN IF event.code <= 2
            THEN [h EXCEPT !.mouse_movement_collection = Append(@, action)]
            ELSE send_action(h, action)
       ELSE h

\* on_relative_event once the disguised press has returned (lines 204-230),
\* h.ret being what on_key_event returned.
on_relative_event_pressed(h, event) ==
    LET action == RelativeEventAction(event.code, event.value)
    IN IF h.err THEN h
       ELSE IF h.ret
       THEN IF event.code <= 2
            THEN [h EXCEPT !.mouse_movement_collection = Append(@, action)]
            ELSE send_action(h, action)
       ELSE h

\* Handle EventType::RELATIVE
on_relative_event(h, event) ==
    LET key == disguised_key(event)
        \* Sending a RELATIVE event "disguised" as a "fake" KEY event press to on_key_event.
        h1 == on_key_event(h, EvKey(key, PRESS))
        h2 == on_relative_event_pressed(h1, event)
    IN IF overflow_checks /\ disguise_overflows(event)
       THEN [h EXCEPT !.err = TRUE, !.panic = TRUE]    \* attempt to multiply/add with overflow
       \* Sending the "unpressed" version of the "fake" KEY event.
       ELSE on_key_event(h2, EvKey(key, RELEASE))

\* The for loop of on_events, which stops at the first Err, and the collection
\* sent after it (lines 86-103).
RECURSIVE on_events_loop(_, _)
on_events_loop(h, evs) ==
    IF h.err THEN h
    ELSE IF evs = << >>
    THEN IF Len(h.mouse_movement_collection) > 0
         THEN send_action(h, MouseMovementEventCollection(h.mouse_movement_collection))
         ELSE h
    ELSE on_events_loop(
             CASE Head(evs).type = "KeyEvent" -> on_key_event(h, Head(evs))
               [] Head(evs).type = "RelativeEvent" -> on_relative_event(h, Head(evs))
               [] Head(evs).type = "OtherEvents" -> send_action(h, InputEventAction)
               [] Head(evs).type = "OverrideTimeout" -> timeout_override(h),
             Tail(evs))

\* Handle Events and return Actions: the handler after the call, with the
\* returned list in .actions (Ok) or .err set (Err).
on_events(h, evs) ==
    on_events_loop([h EXCEPT !.mouse_movement_collection = << >>], evs)

(***************************************************************************)
(* Configurations (crate::config) and devices the handler is run with.     *)
(***************************************************************************)
\* alone_timeout of the multi-purpose key and timeout of the nested remaps, in ticks.
AloneTimeout == 1
RemapTimeout == 1

\* remap: { KEY_F: KEY_FIND, C-a: KEY_Y }
SpaceRemap ==
    << [key_press |-> KeyPress(KEY_F, << >>),
        actions |-> << ActKeyPress(KeyPress(KEY_FIND, << >>)) >>],
       [key_press |-> KeyPress(KEY_A, << ModControl >>),
        actions |-> << ActKeyPress(KeyPress(KEY_Y, << >>)) >>] >>

\* remap: { KEY_F: KEY_B }
CtrlFRemap ==
    << [key_press |-> KeyPress(KEY_F, << >>),
        actions |-> << ActKeyPress(KeyPress(KEY_B, << >>)) >> ] >>

\* C-a -> KEY_B
KeymapCtrlA ==
    KEY_A :> << Entry(<< ModControl >>, << ActKeyPress(KeyPress(KEY_B, << >>)) >>,
                      FALSE, None, None) >>

\* KEY_SPACE -> { remap: SpaceRemap, timeout }
KeymapSpace ==
    KEY_SPACE :> << Entry(<< >>, << ActRemap(SpaceRemap, Some(RemapTimeout), None) >>,
                          FALSE, None, None) >>

\* KEY_SPACE -> { remap: SpaceRemap, timeout } and, from a second keymap,
\* KEY_SPACE -> { remap: { KEY_X: KEY_Y } }
KeymapSpaceTwice ==
    KEY_SPACE :> << Entry(<< >>, << ActRemap(SpaceRemap, Some(RemapTimeout), None) >>,
                          FALSE, None, None),
                    Entry(<< >>,
                          << ActRemap(<< [key_press |-> KeyPress(KEY_X, << >>),
                                          actions |-> << ActKeyPress(KeyPress(KEY_Y, << >>)) >>] >>,
                                      None, None) >>,
                          FALSE, None, None) >>

\* C-f -> { remap: CtrlFRemap, timeout, timeout_key: KEY_ESC }
KeymapCtrlF ==
    KEY_F :> << Entry(<< ModControl >>,
                      << ActRemap(CtrlFRemap, Some(RemapTimeout), Some(KEY_ESC)) >>,
                      FALSE, None, None) >>

\* KEY_CAPSLOCK -> { held: KEY_LEFTCTRL, alone: KEY_ESC, alone_timeout }
ModmapCapslock ==
    [remap |-> (KEY_CAPSLOCK :> ModmapMultiPurposeKey(KEY_LEFTCTRL, KEY_ESC, AloneTimeout)),
     application |-> None]

\* KEY_Z -> KEY_A, in application "term" only
ModmapTermZ ==
    [remap |-> (KEY_Z :> ModmapKey(KEY_A)), application |-> Some(AppOnly({"term"}))]

\* KEY_SPACE -> { held: KEY_LEFTSHIFT, alone: KEY_SPACE, alone_timeout }
ModmapSpace ==
    [remap |-> (KEY_SPACE :> ModmapMultiPurposeKey(KEY_LEFTSHIFT, KEY_SPACE, AloneTimeout)),
     application |-> None]

\* A device: the keys and the relative events (code, value) it reports, whether
\* it reports other events, and whether it delivers events in batches.
Device(keys, relative, other, batched) ==
    [keys |-> keys, relative |-> relative, other |-> other, batched |-> batched]

\* Multi-purpose key, chord and nested remap.
ConfigMain ==
    [ modmap |-> << ModmapCapslock >>,
      keymap_table |-> KeymapCtrlA @@ KeymapSpace,
      virtual_modifiers |-> {},
      mode |-> "default" ]
DeviceMain == Device({ KEY_LEFTCTRL, KEY_A, KEY_X, KEY_CAPSLOCK, KEY_SPACE }, {}, FALSE, FALSE)

\* Application-specific modmap, multi-purpose key and chord.
ConfigAlias ==
    [ modmap |-> << ModmapTermZ, ModmapCapslock >>,
      keymap_table |-> KeymapCtrlA,
      virtual_modifiers |-> {},
      mode |-> "default" ]
DeviceAlias == Device({ KEY_LEFTCTRL, KEY_A, KEY_Z, KEY_CAPSLOCK }, {}, FALSE, FALSE)

\* Two multi-purpose keys.
ConfigDual ==
    [ modmap |-> << ModmapCapslock, ModmapSpace >>,
      keymap_table |-> EmptyMap,
      virtual_modifiers |-> {},
      mode |-> "default" ]
DeviceDual == Device({ KEY_X, KEY_CAPSLOCK, KEY_SPACE }, {}, FALSE, FALSE)

\* The scancodes of the disguised relative events.
XLEFTCURSOR == disguised_key(EvRelative(REL_X, -1))
XDOWNSCROLL == disguised_key(EvRelative(REL_WHEEL, -1))

\* Relative events: C-XLEFTCURSOR -> KEY_B in the keymap, XDOWNSCROLL -> KEY_A
\* in the modmap.
ConfigRel ==
    [ modmap |-> << [remap |-> (XDOWNSCROLL :> ModmapKey(KEY_A)), application |-> None] >>,
      keymap_table |->
          (XLEFTCURSOR :> << Entry(<< ModControl >>, << ActKeyPress(KeyPress(KEY_B, << >>)) >>,
                                   FALSE, None, None) >>),
      virtual_modifiers |-> {},
      mode |-> "default" ]
DeviceRel ==
    Device({ KEY_LEFTCTRL },
           { <<REL_X, -1>>, <<REL_Z, 1>>, <<REL_WHEEL, -1>>, <<REL_WHEEL, 1>> },
           FALSE, TRUE)

\* Relative codes whose disguise overflows u16: (REL_WRAPPED * 2 + 59974) mod 2^16
\* is KEY_A, and REL_HIGH * 2 is 2^16.
REL_WRAPPED == 2796
REL_HIGH == 32768

XRIGHTCURSOR == disguised_key(EvRelative(REL_X, 1))
XUPSCROLL == disguised_key(EvRelative(REL_WHEEL, 1))

\* Relative events of value 0 and of large codes: XUPSCROLL -> KEY_B in the
\* keymap, XRIGHTCURSOR -> KEY_A in the modmap of application "term".
ConfigWide ==
    [ modmap |-> << [remap |-> (XRIGHTCURSOR :> ModmapKey(KEY_A)),
                     application |-> Some(AppOnly({"term"}))] >>,
      keymap_table |->
          (XUPSCROLL :> << Entry(<< >>, << ActKeyPress(KeyPress(KEY_B, << >>)) >>,
                                 FALSE, None, None) >>),
      virtual_modifiers |-> {},
      mode |-> "default" ]
DeviceWide ==
    Device({},
           { <<REL_X, 0>>, <<REL_WHEEL, 0>>, <<REL_WRAPPED, 1>>, <<REL_HIGH, 1>> },
           FALSE, TRUE)

\* KEY_Z -> KEY_CAPSLOCK, in application "term" only
ModmapTermCapslock ==
    [remap |-> (KEY_Z :> ModmapKey(KEY_CAPSLOCK)), application |-> Some(AppOnly({"term"}))]

\* C-x -> C-y, CAPSLOCK-x -> escape_next_key, C-a -> Shift-b
KeymapChords ==
    (KEY_X :> << Entry(<< ModControl >>, << ActKeyPress(KeyPress(KEY_Y, << ModControl >>)) >>,
                       FALSE, None, None),
                 Entry(<< ModKey(KEY_CAPSLOCK) >>, << ActEscapeNextKey(TRUE) >>,
                       FALSE, None, None) >>)
    @@ (KEY_A :> << Entry(<< ModControl >>, << ActKeyPress(KeyPress(KEY_B, << ModShift >>)) >>,
                          FALSE, None, None) >>)

\* A virtual modifier, chords with modifiers of their own and escape_next_key.
ConfigChord ==
    [ modmap |-> << ModmapTermCapslock >>,
      keymap_table |-> KeymapChords,
      virtual_modifiers |-> { KEY_CAPSLOCK },
      mode |-> "default" ]
DeviceChord == Device({ KEY_LEFTCTRL, KEY_CAPSLOCK, KEY_Z, KEY_X, KEY_A }, {}, FALSE, FALSE)

\* KEY_X -> { remap: { KEY_F: KEY_B } }, with no timeout
KeymapUntimed ==
    KEY_X :> << Entry(<< >>, << ActRemap(CtrlFRemap, None, None) >>, FALSE, None, None) >>

\* A remap with a timeout and one without.
ConfigFault ==
    [ modmap |-> << >>,
      keymap_table |-> KeymapSpace @@ KeymapUntimed,
      virtual_modifiers |-> {},
      mode |-> "default" ]
DeviceFault == Device({ KEY_SPACE, KEY_X, KEY_F }, {}, FALSE, FALSE)

\* KEY_X -> KEY_Y
KeymapPlain ==
    KEY_X :> << Entry(<< >>, << ActKeyPress(KeyPress(KEY_Y, << >>)) >>, FALSE, None, None) >>

\* A remap with a timeout and a key press, both matched whatever modifier is held.
ConfigExtra ==
    [ modmap |-> << >>,
      keymap_table |-> KeymapSpace @@ KeymapPlain,
      virtual_modifiers |-> {},
      mode |-> "default" ]

\* Alt-x -> KEY_B
KeymapAltX ==
    KEY_X :> << Entry(<< ModAlt >>, << ActKeyPress(KeyPress(KEY_B, << >>)) >>, FALSE, None, None) >>

\* virtual_modifiers: [KEY_RIGHTALT], one of MODIFIER_KEYS.
ConfigVirtual ==
    [ modmap |-> << >>,
      keymap_table |-> KeymapAltX,
      virtual_modifiers |-> { KEY_RIGHTALT },
      mode |-> "default" ]

\* KEY_X -> KEY_Y, C-x -> KEY_B, and KEY_A -> KEY_F with exact_match
KeymapExact ==
    (KEY_X :> << Entry(<< >>, << ActKeyPress(KeyPress(KEY_Y, << >>)) >>, FALSE, None, None),
                 Entry(<< ModControl >>, << ActKeyPress(KeyPress(KEY_B, << >>)) >>,
                       FALSE, None, None) >>)
    @@ (KEY_A :> << Entry(<< >>, << ActKeyPress(KeyPress(KEY_F, << >>)) >>, TRUE, None, None) >>)

\* Entries that match exactly and loosely.
ConfigExact ==
    [ modmap |-> << >>,
      keymap_table |-> KeymapExact,
      virtual_modifiers |-> {},
      mode |-> "default" ]

\* KEY_A -> set_mark: true, Shift-x and KEY_X -> with_mark: KEY_B,
\* KEY_F -> with_mark: Shift-y
KeymapMark ==
    (KEY_A :> << Entry(<< >>, << ActSetMark(TRUE) >>, FALSE, None, None) >>)
    @@ (KEY_X :> << Entry(<< ModShift >>, << ActWithMark(KeyPress(KEY_B, << >>)) >>,
                          FALSE, None, None),
                    Entry(<< >>, << ActWithMark(KeyPress(KEY_B, << >>)) >>,
                          FALSE, None, None) >>)
    @@ (KEY_F :> << Entry(<< >>, << ActWithMark(KeyPress(KEY_Y, << ModShift >>)) >>,
                          FALSE, None, None) >>)

\* The mark.
ConfigMark ==
    [ modmap |-> << >>,
      keymap_table |-> KeymapMark,
      virtual_modifiers |-> {},
      mode |-> "default" ]

\* KEY_A -> set_mode: insert; KEY_F -> set_mode: normal, in mode insert only;
\* KEY_X -> KEY_B in mode insert, KEY_Y in mode normal, KEY_FIND otherwise
KeymapMode ==
    (KEY_A :> << Entry(<< >>, << ActSetMode("insert") >>, FALSE, None, None) >>)
    @@ (KEY_F :> << Entry(<< >>, << ActSetMode("normal") >>, FALSE, None, Some({ "insert" })) >>)
    @@ (KEY_X :> << Entry(<< >>, << ActKeyPress(KeyPress(KEY_B, << >>)) >>,
                          FALSE, None, Some({ "insert" })),
                    Entry(<< >>, << ActKeyPress(KeyPress(KEY_Y, << >>)) >>,
                          FALSE, None, Some({ "normal" })),
                    Entry(<< >>, << ActKeyPress(KeyPress(KEY_FIND, << >>)) >>,
                          FALSE, None, None) >>)

\* Modes.
ConfigMode ==
    [ modmap |-> << >>,
      keymap_table |-> KeymapMode,
      virtual_modifiers |-> {},
      mode |-> "default" ]

\* KEY_SPACE -> { remap: CtrlFRemap }, then { remap: SpaceRemap, timeout,
\* timeout_key: KEY_ESC }, then KEY_B; KEY_X -> [{ remap: SpaceRemap, timeout },
\* { remap: CtrlFRemap, timeout, timeout_key: KEY_ESC }]
KeymapParallel ==
    (KEY_SPACE :> << Entry(<< >>, << ActRemap(CtrlFRemap, None, None) >>, FALSE, None, None),
                     Entry(<< >>, << ActRemap(SpaceRemap, Some(RemapTimeout), Some(KEY_ESC)) >>,
                           FALSE, None, None),
                     Entry(<< >>, << ActKeyPress(KeyPress(KEY_B, << >>)) >>,
                           FALSE, None, None) >>)
    @@ (KEY_X :> << Entry(<< >>, << ActRemap(SpaceRemap, Some(RemapTimeout), None),
                                    ActRemap(CtrlFRemap, Some(RemapTimeout), Some(KEY_ESC)) >>,
                          FALSE, None, None) >>)

\* Several remaps for one key.
ConfigParallel ==
    [ modmap |-> << >>,
      keymap_table |-> KeymapParallel,
      virtual_modifiers |-> {},
      mode |-> "default" ]

\* Nested remaps with timeouts.
ConfigOverride ==
    [ modmap |-> << >>,
      keymap_table |-> KeymapCtrlA @@ KeymapSpaceTwice @@ KeymapCtrlF,
      virtual_modifiers |-> {},
      mode |-> "default" ]
DeviceOverride == Device({ KEY_LEFTCTRL, KEY_A, KEY_X, KEY_SPACE, KEY_F }, {}, TRUE, FALSE)

Applications == { Some("term"), Some("web") }

(***************************************************************************)
(* Input: well-formed batches of events of the device.                     *)
(***************************************************************************)
\* The override timer is armed by a Remap with a timeout only.
TimerUsed ==
    \E k \in DOMAIN config.keymap_table : \E i \in 1..Len(config.keymap_table[k]) :
        \E j \in 1..Len(config.keymap_table[k][i].actions) :
            LET a == config.keymap_table[k][i].actions[j]
            IN a.type = "Remap" /\ IsSome(a.timeout)

InputEvents ==
    { EvKey(k, v) : k \in input_device.keys, v \in {RELEASE, PRESS, REPEAT} }
    \cup { EvRelative(r[1], r[2]) : r \in input_device.relative }
    \cup (IF TimerUsed THEN { EvOverrideTimeout } ELSE {})
    \cup (IF input_device.other THEN { EvOther } ELSE {})

\* The keys physically down after event e.
PhysicalAfter(phys, e) ==
    IF e.type # "KeyEvent" THEN phys
    ELSE IF e.value = PRESS THEN phys \cup {e.code}
    ELSE IF e.value = RELEASE THEN phys \ {e.code}
    ELSE phys

\* Per physical key: PRESS, then any number of REPEAT, then RELEASE.
WellFormedEvent(phys, e) ==
    IF e.type # "KeyEvent" THEN TRUE
    ELSE IF e.value = PRESS THEN e.code \notin phys /\ Cardinality(phys) < MaxHeld
    ELSE e.code \in phys

RECURSIVE WellFormed(_, _)
WellFormed(phys, evs) ==
    IF Len(evs) = 0 THEN TRUE
    ELSE IF ~WellFormedEvent(phys, Head(evs)) THEN FALSE
    ELSE WellFormed(PhysicalAfter(phys, Head(evs)), Tail(evs))

RECURSIVE PhysicalAfterAll(_, _)
PhysicalAfterAll(phys, evs) ==
    IF evs = << >> THEN phys
    ELSE PhysicalAfterAll(PhysicalAfter(phys, Head(evs)), Tail(evs))

Batches ==
    UNION { [1..n -> InputEvents] : n \in 1..(IF input_device.batched THEN MaxBatch ELSE 1) }

\* The keys that can be members of the hash containers the handler iterates
\* (modifiers, multi_purpose_keys).
ModmapActions == UNION { { config.modmap[i].remap[k] : k \in DOMAIN config.modmap[i].remap }
                         : i \in 1..Len(config.modmap) }
HashKeys ==
    ( ( input_device.keys
        \cup { a.key : a \in { x \in ModmapActions : x.type = "Key" } }
        \cup { a.held : a \in { x \in ModmapActions : x.type = "MultiPurposeKey" } }
        \cup { a.alone : a \in { x \in ModmapActions : x.type = "MultiPurposeKey" } } )
      \cap (MODIFIER_KEYS \cup config.virtual_modifiers) )
    \cup UNION { { k \in DOMAIN config.modmap[i].remap :
                       config.modmap[i].remap[k].type = "MultiPurposeKey" }
                 : i \in 1..Len(config.modmap) }

(***************************************************************************)
(* The downstream key state: presses minus releases per emitted key.       *)
(***************************************************************************)
RECURSIVE DownAfter(_, _)
DownAfter(d, acts) ==
    IF acts = << >> THEN d
    ELSE LET a == Head(acts)
             cur == IF a.type = "KeyEvent" /\ a.key \in DOMAIN d THEN d[a.key] ELSE 0
             d1 == IF a.type # "KeyEvent" THEN d
                   ELSE IF a.value = PRESS THEN MapInsert(d, a.key, cur + 1)
                   ELSE IF a.value = RELEASE
                   THEN IF cur <= 1 THEN MapRemove(d, a.key) ELSE MapInsert(d, a.key, cur - 1)
                   ELSE d
         IN DownAfter(d1, Tail(acts))

(***************************************************************************)
(* Initial state: EventHandler::new                                        *)
(***************************************************************************)
NoCall == [ok |-> TRUE, panic |-> FALSE, actions |-> << >>, trace |-> << >>, probes |-> 0]

InitHandler ==
    /\ modifiers = {}
    /\ extra_modifiers = {}
    /\ pressed_keys = EmptyMap
    /\ application_cache = None
    /\ multi_purpose_keys = EmptyMap
    /\ override_remaps = << >>
    /\ override_timeout_key = None
    /\ override_timer = FALSE
    /\ mode = config.mode
    /\ mark_set = FALSE
    /\ escape_next_key = FALSE
    /\ actions = << >>

InitObservation ==
    /\ events = << >>
    /\ returned = NoCall
    /\ before = << >>
    /\ down = EmptyMap
    /\ pressed_as = EmptyMap
    /\ consumed = {}
    /\ cycle = EmptyMap
    /\ timer_failures = 0

\* The handler is built for cfg and dev, by a build of one of the profiles
\* builds (overflow checks on or off).
InitBuilt(cfg, dev, builds) ==
    /\ config = cfg
    /\ input_device = dev
    /\ application \in Applications
    /\ now = 0
    /\ timer_fault = FALSE
    /\ overflow_checks \in builds
    /\ physical = {}
    /\ InitHandler
    /\ InitObservation

\* A release build.
InitWith(cfg, dev) == InitBuilt(cfg, dev, {FALSE})

(***************************************************************************)
(* Steps.                                                                  *)
(***************************************************************************)
\* One call of on_events with batch evs, the hash containers iterating in order ord.
OnEvents(evs, ord) ==
    /\ ~returned.panic
    /\ WellFormed(physical, evs)
    /\ \E h \in { on_events(Self(ord), evs) } :
          /\ modifiers' = h.modifiers
          /\ extra_modifiers' = h.extra_modifiers
          /\ pressed_keys' = h.pressed_keys
          /\ application_cache' = h.application_cache
          /\ multi_purpose_keys' = h.multi_purpose_keys
          /\ override_remaps' = h.override_remaps
          /\ override_timeout_key' = h.override_timeout_key
          /\ override_timer' = h.override_timer
          /\ mode' = h.mode
          /\ mark_set' = h.mark_set
          /\ escape_next_key' = h.escape_next_key
          \* Ok(self.actions.drain(..).collect())
          /\ actions' = IF h.err THEN h.actions ELSE << >>
          /\ returned' = [ok |-> ~h.err,
                          panic |-> h.panic,
                          actions |-> IF h.err THEN << >> ELSE h.actions,
                          trace |-> h.trace,
                          probes |-> h.probes]
          /\ down' = IF h.err THEN down ELSE DownAfter(down, h.actions)
          /\ pressed_as' = h.pressed_as
          /\ consumed' = h.consumed
          /\ cycle' = h.cycle
          /\ timer_failures' = IF h.err /\ ~h.panic THEN timer_failures + 1 ELSE timer_failures
          \* the failure is transient
          /\ timer_fault' = IF h.err THEN FALSE ELSE timer_fault
    /\ events' = evs
    /\ before' = << [h |-> Self(<< >>), physical |-> physical, down |-> down] >>
    /\ physical' = PhysicalAfterAll(physical, evs)
    /\ UNCHANGED << config, input_device, application, now, overflow_checks >>

HandleEvents == \E evs \in Batches : \E ord \in Orderings(HashKeys) : OnEvents(evs, ord)

\* Time passes.
Tick ==
    /\ now < MaxTime
    /\ now' = now + 1
    /\ events' = << >> /\ before' = << >>
    /\ returned' = [NoCall EXCEPT !.ok = returned.ok, !.panic = returned.panic]
    /\ UNCHANGED << handler_vars, config, input_device, application, timer_fault,
                    overflow_checks, physical, down, pressed_as, consumed, cycle, timer_failures >>

\* Another application gets the focus.
FocusChange ==
    /\ application' \in Applications \ {application}
    /\ events' = << >> /\ before' = << >>
    /\ returned' = [NoCall EXCEPT !.ok = returned.ok, !.panic = returned.panic]
    /\ UNCHANGED << handler_vars, config, input_device, now, timer_fault,
                    overflow_checks, physical, down, pressed_as, consumed, cycle, timer_failures >>

Next == HandleEvents \/ Tick \/ FocusChange

\* Without a multi-purpose key the handler never reads the clock.
NextUntimed == HandleEvents \/ FocusChange

\* The timerfd calls fail from now on, until one has failed.
TimerFault ==
    /\ ~timer_fault
    /\ timer_failures < MaxFailures
    /\ timer_fault' = TRUE
    /\ events' = << >> /\ before' = << >>
    /\ returned' = [NoCall EXCEPT !.ok = returned.ok, !.panic = returned.panic]
    /\ UNCHANGED << handler_vars, config, input_device, application, now,
                    overflow_checks, physical, down, pressed_as, consumed, cycle, timer_failures >>

NextFaulty == HandleEvents \/ TimerFault

Init == InitWith(ConfigMain, DeviceMain)
Spec == Init /\ [][Next]_vars

InitAlias == InitWith(ConfigAlias, DeviceAlias)
SpecAlias == InitAlias /\ [][Next]_vars

InitDual == InitWith(ConfigDual, DeviceDual)
SpecDual == InitDual /\ [][Next]_vars

InitRel == InitWith(ConfigRel, DeviceRel)
SpecRel == InitRel /\ [][NextUntimed]_vars

InitOverride == InitWith(ConfigOverride, DeviceOverride)
SpecOverride == InitOverride /\ [][NextUntimed]_vars

InitChord == InitWith(ConfigChord, DeviceChord)
SpecChord == InitChord /\ [][NextUntimed]_vars

InitFault == InitWith(ConfigFault, DeviceFault)
SpecFault == InitFault /\ [][NextFaulty]_vars

InitExact == InitWith(ConfigExact, Device({ KEY_LEFTCTRL, KEY_LEFTSHIFT, KEY_X, KEY_A }, {}, FALSE, FALSE))
SpecExact == InitExact /\ [][NextUntimed]_vars

InitMark == InitWith(ConfigMark, Device({ KEY_LEFTSHIFT, KEY_A, KEY_X, KEY_F }, {}, FALSE, FALSE))
SpecMark == InitMark /\ [][NextUntimed]_vars

InitMode == InitWith(ConfigMode, Device({ KEY_A, KEY_X, KEY_F }, {}, FALSE, FALSE))
SpecMode == InitMode /\ [][NextUntimed]_vars

InitExtra == InitWith(ConfigExtra, Device({ KEY_LEFTSHIFT, KEY_SPACE, KEY_X }, {}, FALSE, FALSE))
SpecExtra == InitExtra /\ [][NextFaulty]_vars

InitVirtual == InitWith(ConfigVirtual, Device({ KEY_RIGHTALT, KEY_LEFTSHIFT, KEY_X, KEY_A }, {}, FALSE, FALSE))
SpecVirtual == InitVirtual /\ [][NextUntimed]_vars

InitParallel == InitWith(ConfigParallel, Device({ KEY_SPACE, KEY_X, KEY_F }, {}, FALSE, FALSE))
SpecParallel == InitParallel /\ [][NextUntimed]_vars

InitWide == InitBuilt(ConfigWide, DeviceWide, BOOLEAN)
SpecWide == InitWide /\ [][NextUntimed]_vars

(***************************************************************************)
(* Vocabulary of the properties.                                           *)
(***************************************************************************)
\* The last step was an on_events call that returned Ok.
Called == Len(before) = 1 /\ returned.ok
\* The handler when it was called.
Pre == before[1].h
\* The call handled exactly the key event (k, v).
Handled(k, v) == Called /\ events = << EvKey(k, v) >>
HandledKey == Called /\ Len(events) = 1 /\ events[1].type = "KeyEvent"
Out == returned.actions
KE(k, v) == KeyEventAction(k, v)

\* The modmap action of a multi-purpose key.
MultiPurposeOf(p) ==
    LET i == CHOOSE i \in 1..Len(config.modmap) :
                 /\ p \in DOMAIN config.modmap[i].remap
                 /\ config.modmap[i].remap[p].type = "MultiPurposeKey"
    IN config.modmap[i].remap[p]

\* The physical keys down that account for an emitted press of k: those whose
\* own PRESS was sent as k, and the multi-purpose keys resolved to held = k.
Accounting(k) ==
    { p \in DOMAIN pressed_as : pressed_as[p] = k }
    \cup { p \in DOMAIN multi_purpose_keys :
               /\ multi_purpose_keys[p].alone_timeout_at = None
               /\ multi_purpose_keys[p].held = k }

\* The fields of the handler proper (the cache is expired by every key event).
HandlerState(h) ==
    [ modifiers |-> h.modifiers, extra_modifiers |-> h.extra_modifiers,
      pressed_keys |-> h.pressed_keys, multi_purpose_keys |-> h.multi_purpose_keys,
      override_remaps |-> h.override_remaps,
      override_timeout_key |-> h.override_timeout_key,
      override_timer |-> h.override_timer, mode |-> h.mode, mark_set |-> h.mark_set,
      escape_next_key |-> h.escape_next_key, actions |-> h.actions ]

\* EventHandler::new with the configured default mode.
NewHandler ==
    [ modifiers |-> {}, extra_modifiers |-> {}, pressed_keys |-> EmptyMap,
      application_cache |-> None, multi_purpose_keys |-> EmptyMap,
      override_remaps |-> << >>, override_timeout_key |-> None,
      override_timer |-> FALSE, mode |-> config.mode, mark_set |-> FALSE,
      escape_next_key |-> FALSE, actions |-> << >>,
      iter |-> SeqOfSet(HashKeys), err |-> FALSE, panic |-> FALSE, ret |-> FALSE,
      mouse_movement_collection |-> << >>, key_values |-> << >>,
      trace |-> << >>, probes |-> 0,
      pressed_as |-> EmptyMap, consumed |-> {}, cycle |-> EmptyMap ]

\* The handler after it returned from on_events(evs), called in state h.
Returned(h, evs) ==
    [on_events(h, evs) EXCEPT !.actions = << >>, !.trace = << >>, !.probes = 0,
                              !.mouse_movement_collection = << >>,
                              !.key_values = << >>]

\* The handler after the first n events of input, handled one per call by a new handler.
RECURSIVE AfterPrefix(_, _)
AfterPrefix(input, n) ==
    IF n = 0 THEN NewHandler
    ELSE Returned(AfterPrefix(input, n - 1), << input[n] >>)

\* The call handled event n of input, the events before it having been
\* handled one per call by a new handler.
AtStep(input, n) ==
    /\ Called
    /\ events = << input[n] >>
    /\ HandlerState(Pre) = HandlerState(AfterPrefix(input, n - 1))

(***************************************************************************)
(* C1  Press/release pairing.  When the PRESS of physical key p was sent   *)
(* as KeyEvent(k', PRESS), the key events sent for the later REPEAT and    *)
(* RELEASE of p carry k', whatever the modmap gives for p by then, and the *)
(* RELEASE is sent; every emitted press whose release has not been emitted *)
(* is accounted for by a physical key that is down, one press per key.     *)
(***************************************************************************)
C1_PressReleasePairing ==
    /\ ( /\ HandledKey
         /\ events[1].value # PRESS
         /\ events[1].code \in DOMAIN Pre.pressed_as )
       => LET k == Pre.pressed_as[events[1].code]
          IN /\ \A i \in 1..Len(returned.trace) :
                   returned.trace[i].emitted =>
                       /\ returned.trace[i].key = k
                       /\ returned.trace[i].value = events[1].value
             /\ events[1].value = RELEASE => Out = << KE(k, RELEASE) >>
    /\ \A k \in DOMAIN down : down[k] <= Cardinality(Accounting(k))
    /\ DOMAIN pressed_as \subseteq physical

\* The release of KEY_Z, pressed in "term" (sent as KEY_A), arrives while
\* another application has the focus, where KEY_Z has no modmap entry.
C1_Witness ==
    /\ Handled(KEY_Z, RELEASE)
    /\ application = Some("web")
    /\ KEY_Z \in DOMAIN Pre.pressed_as /\ Pre.pressed_as[KEY_Z] = KEY_A
    /\ Out = << KE(KEY_A, RELEASE) >>

(***************************************************************************)
(* C2  Chord with the required modifier held.  With keymap C-a -> KEY_B    *)
(* and input LEFTCTRL PRESS, KEY_A PRESS, KEY_A RELEASE, LEFTCTRL RELEASE  *)
(* the handler emits LEFTCTRL PRESS; for KEY_A PRESS it emits KEY_B PRESS, *)
(* KEY_B RELEASE and Delay between a RELEASE and a PRESS of the held       *)
(* LEFTCTRL, which KeyPress(KEY_B, []) does not ask for; the RELEASE of    *)
(* KEY_A, whose PRESS the keymap consumed, is emitted as a KeyEvent; then  *)
(* LEFTCTRL RELEASE.                                                       *)
(***************************************************************************)
C2_Input ==
    << EvKey(KEY_LEFTCTRL, PRESS), EvKey(KEY_A, PRESS),
       EvKey(KEY_A, RELEASE), EvKey(KEY_LEFTCTRL, RELEASE) >>

\* As claimed: no modifier is released or pressed around KEY_B, and the
\* RELEASE of a key whose PRESS a keymap entry consumed produces no action.
C2_ClaimedOutput ==
    << << KE(KEY_LEFTCTRL, PRESS) >>,
       << KE(KEY_B, PRESS), KE(KEY_B, RELEASE), DelayAction >>,
       << >>,
       << KE(KEY_LEFTCTRL, RELEASE) >> >>

C2_ReleaseOfConsumedPressIsSilent ==
    /\ \A n \in 1..4 : AtStep(C2_Input, n) => Out = C2_ClaimedOutput[n]
    /\ \A k \in input_device.keys :
          (Handled(k, RELEASE) /\ k \in before[1].h.consumed) => Out = << >>

\* As the code has it: send_key_press releases the held modifiers the
\* KeyPress does not name and presses them again after the Delay, and that
\* RELEASE is emitted as a KeyEvent, with the key recorded at the press.
C2_Output ==
    << << KE(KEY_LEFTCTRL, PRESS) >>,
       << KE(KEY_LEFTCTRL, RELEASE), KE(KEY_B, PRESS), KE(KEY_B, RELEASE),
          DelayAction, KE(KEY_LEFTCTRL, PRESS) >>,
       << KE(KEY_A, RELEASE) >>,
       << KE(KEY_LEFTCTRL, RELEASE) >> >>

C2_ReleaseOfConsumedPressIsEmitted ==
    /\ \A n \in 1..4 : AtStep(C2_Input, n) => Out = C2_Output[n]
    /\ \A k \in input_device.keys :
          (Handled(k, RELEASE) /\ k \in before[1].h.consumed)
              => Out = << KE(IF k \in DOMAIN Pre.pressed_keys THEN Pre.pressed_keys[k] ELSE k,
                             RELEASE) >>

\* The release of KEY_A, its press consumed by C-a, has been handled.
C2_Witness ==
    /\ AtStep(C2_Input, 3)
    /\ KEY_A \in before[1].h.consumed
    /\ Out = << KE(KEY_A, RELEASE) >>

(***************************************************************************)
(* C3  Pass-through key.  When no modmap entry applies to key k and no     *)
(* keymap entry matches, the output of handling (k, v) ends with           *)
(* KeyEvent(k, v), and that is the whole output unless something was       *)
(* pending: a PRESS first forces every pending multi-purpose key to held   *)
(* (KeyEvent(held, PRESS)), and a PRESS or REPEAT of a non-modifier key    *)
(* that no stacked override table has an entry for first emits press and   *)
(* release of a pending override timeout key.                              *)
(***************************************************************************)
\* The call handled one key event that no modmap entry applied to and no
\* keymap entry matched.
PassThrough ==
    /\ HandledKey
    /\ find_modmap([Pre EXCEPT !.application_cache = None], events[1].code).found = None
    /\ Len(returned.trace) > 0
    /\ returned.trace[Len(returned.trace)].key = events[1].code
    /\ returned.trace[Len(returned.trace)].stage # "matched"

\* The multi-purpose keys whose press is still delayed, in iteration order ord.
PendingMultiPurpose(h, ord) ==
    LET Pending(p) == IsSome(h.multi_purpose_keys[p].alone_timeout_at)
    IN SelectSeq(IterOrder(DOMAIN h.multi_purpose_keys, ord), Pending)

\* What handling a pass-through (k, v) sends before KeyEvent(k, v).
FlushedBefore(h, k, v, ord) ==
    LET pending == PendingMultiPurpose(h, ord)
        held == IF v = PRESS
                THEN [i \in 1..Len(pending) |->
                         KE(h.multi_purpose_keys[pending[i]].held, PRESS)]
                ELSE << >>
        t == h.override_timeout_key
        timeout == IF /\ is_pressed(v) /\ k \notin MODIFIER_KEYS
                      /\ ~h.escape_next_key /\ IsSome(t)
                      /\ override_entries(h.override_remaps, k) = << >>
                   THEN << KE(Unwrap(t), PRESS), KE(Unwrap(t), RELEASE) >>
                   ELSE << >>
    IN held \o timeout

\* As claimed: exactly [KeyEvent(k, v)] in every reachable handler state.
C3_PassThroughAlone ==
    PassThrough => Out = << KE(events[1].code, events[1].value) >>

C3_PassThrough ==
    PassThrough =>
        \E ord \in Orderings(HashKeys) :
            Out = FlushedBefore(Pre, events[1].code, events[1].value, ord)
                     \o << KE(events[1].code, events[1].value) >>

\* KEY_X pressed while KEY_CAPSLOCK and the remap of KEY_SPACE are pending.
C3_Witness ==
    /\ PassThrough
    /\ Handled(KEY_X, PRESS)
    /\ Out = << KE(KEY_LEFTCTRL, PRESS), KE(KEY_SPACE, PRESS), KE(KEY_SPACE, RELEASE),
                KE(KEY_X, PRESS) >>

(***************************************************************************)
(* C4  Multi-purpose key resolution.  The PRESS of a multi-purpose key     *)
(* emits nothing.  Released while still pending: strictly before           *)
(* alone_timeout elapsed the release emits (alone, PRESS),                 *)
(* (alone, RELEASE); at alone_timeout or later it emits (held, PRESS),     *)
(* (held, RELEASE), never the alone key; in both cases what else is        *)
(* pending is sent first: (held', PRESS) of every other pending            *)
(* multi-purpose key, and press and release of a pending override timeout  *)
(* key when the key emitted is not a modifier.  A key is no longer pending *)
(* once one of its REPEATs came at alone_timeout or later or a key that is *)
(* not multi-purpose was pressed: its release emits (held, RELEASE) only.  *)
(***************************************************************************)
\* The call handled the PRESS of a multi-purpose key.
MultiPurposePressed ==
    /\ HandledKey /\ events[1].value = PRESS
    /\ LET found == find_modmap([Pre EXCEPT !.application_cache = None], events[1].code).found
       IN IsSome(found) /\ Unwrap(found).type = "MultiPurposeKey"

\* The call handled the RELEASE of a multi-purpose key.
MultiPurposeReleased ==
    /\ HandledKey /\ events[1].value = RELEASE
    /\ events[1].code \in DOMAIN Pre.cycle

\* As claimed: with no other press in between, the time alone decides.
C4_ResolutionOnRelease ==
    /\ MultiPurposePressed => Out = << >>
    /\ (MultiPurposeReleased /\ ~Pre.cycle[events[1].code].others) =>
          LET p == events[1].code
              key == MultiPurposeOf(p)
          IN IF now < Pre.cycle[p].deadline
             THEN Out = << KE(key.alone, PRESS), KE(key.alone, RELEASE) >>
             ELSE Out = << KE(key.held, PRESS), KE(key.held, RELEASE) >>

C4_Resolution ==
    /\ MultiPurposePressed => Out = << >>
    /\ MultiPurposeReleased =>
          LET p == events[1].code
              key == MultiPurposeOf(p)
              rest == [Pre EXCEPT !.multi_purpose_keys = MapRemove(@, p)]
              pending == /\ p \in DOMAIN Pre.multi_purpose_keys
                         /\ IsSome(Pre.multi_purpose_keys[p].alone_timeout_at)
          IN /\ (Pre.cycle[p].late_repeat \/ Pre.cycle[p].plain) => ~pending
             /\ IF ~pending THEN Out = << KE(key.held, RELEASE) >>
                ELSE \E ord \in Orderings(HashKeys) :
                        LET k == IF now < Pre.cycle[p].deadline THEN key.alone ELSE key.held
                        IN Out = FlushedBefore(rest, k, PRESS, ord)
                                    \o << KE(k, PRESS), KE(k, RELEASE) >>

\* KEY_CAPSLOCK released when exactly alone_timeout has elapsed.
C4_Witness ==
    /\ Handled(KEY_CAPSLOCK, RELEASE)
    /\ MultiPurposeReleased
    /\ now = Pre.cycle[KEY_CAPSLOCK].deadline
    /\ ~Pre.cycle[KEY_CAPSLOCK].late_repeat
    /\ Out = << KE(KEY_LEFTCTRL, PRESS), KE(KEY_LEFTCTRL, RELEASE) >>

(***************************************************************************)
(* C5  Forced held.  When a key that is not itself multi-purpose is        *)
(* pressed while multi-purpose keys are pending, the output starts with    *)
(* KeyEvent(held, PRESS) of every pending key, before anything emitted for *)
(* the pressed key, and none is pending afterwards; the later release of   *)
(* such a multi-purpose key emits only KeyEvent(held, RELEASE), whatever   *)
(* the elapsed time.  The PRESS of another multi-purpose key emits nothing *)
(* and leaves the pending keys pending.                                    *)
(***************************************************************************)
\* The call handled the PRESS of a key while multi-purpose keys were pending.
PressedWhilePending ==
    /\ HandledKey /\ events[1].value = PRESS
    /\ \E ord \in Orderings(HashKeys) : PendingMultiPurpose(Pre, ord) # << >>

HeldPresses(h, ord) ==
    LET pending == PendingMultiPurpose(h, ord)
    IN [i \in 1..Len(pending) |-> KE(h.multi_purpose_keys[pending[i]].held, PRESS)]

\* As claimed: any other key forces held.
C5_AnyOtherPressForcesHeld ==
    /\ PressedWhilePending =>
          /\ Len(Out) > 0
          /\ \E ord \in Orderings(HashKeys) : Out[1] = HeldPresses(Pre, ord)[1]
    /\ (MultiPurposeReleased /\ Pre.cycle[events[1].code].others)
          => Out = << KE(MultiPurposeOf(events[1].code).held, RELEASE) >>

C5_PlainPressForcesHeld ==
    /\ (PressedWhilePending /\ ~MultiPurposePressed) =>
          /\ \E ord \in Orderings(HashKeys) :
                LET held == HeldPresses(Pre, ord)
                IN /\ Len(Out) >= Len(held)
                   /\ SubSeq(Out, 1, Len(held)) = held
          /\ \A p \in DOMAIN multi_purpose_keys :
                multi_purpose_keys[p].alone_timeout_at = None
    /\ (PressedWhilePending /\ MultiPurposePressed) =>
          /\ Out = << >>
          /\ \A p \in DOMAIN Pre.multi_purpose_keys :
                /\ p \in DOMAIN multi_purpose_keys
                /\ multi_purpose_keys[p] = Pre.multi_purpose_keys[p]
    /\ (MultiPurposeReleased /\ Pre.cycle[events[1].code].plain)
          => Out = << KE(MultiPurposeOf(events[1].code).held, RELEASE) >>

\* KEY_CAPSLOCK, forced to held by KEY_X, is released before alone_timeout elapsed.
C5_Witness ==
    /\ Handled(KEY_CAPSLOCK, RELEASE)
    /\ KEY_CAPSLOCK \in DOMAIN Pre.cycle
    /\ Pre.cycle[KEY_CAPSLOCK].plain
    /\ now < Pre.cycle[KEY_CAPSLOCK].deadline
    /\ KEY_X \in DOMAIN Pre.pressed_as
    /\ Out = << KE(KEY_LEFTCTRL, RELEASE) >>

(***************************************************************************)
(* C6  Override timeout.  While the table a Remap with a timeout pushed is *)
(* at the bottom of the stack, an OverrideTimeout event emits exactly      *)
(* KeyEvent(t, PRESS), KeyEvent(t, RELEASE), t being the timeout_key of    *)
(* the Remap or, when it has none, the key that pushed it.  After any      *)
(* OverrideTimeout the stack is empty, override_timeout_key is None and    *)
(* the timer is disarmed; an OverrideTimeout with no pending key emits     *)
(* nothing.                                                                *)
(***************************************************************************)
TimedOut == Called /\ events = << EvOverrideTimeout >>

\* The Remap actions of the entries of config.keymap_table for key k.
KeymapRemaps(k) ==
    IF k \notin DOMAIN config.keymap_table THEN {}
    ELSE LET entries == config.keymap_table[k]
         IN { a \in UNION { SetOfSeq(entries[i].actions) : i \in 1..Len(entries) } :
                 a.type = "Remap" }

C6_OverrideTimeout ==
    TimedOut =>
        /\ \A k \in DOMAIN config.keymap_table : \A a \in KeymapRemaps(k) :
              ( /\ IsSome(a.timeout)
                /\ Pre.override_remaps # << >>
                /\ Pre.override_remaps[1] \in { build_override_table(a.remap, x) : x \in BOOLEAN } )
                  => LET t == IF IsSome(a.timeout_key) THEN Unwrap(a.timeout_key) ELSE k
                     IN Out = << KE(t, PRESS), KE(t, RELEASE) >>
        /\ override_remaps = << >>
        /\ override_timeout_key = None
        /\ ~override_timer
        /\ Pre.override_timeout_key = None => Out = << >>

\* The remap of C-f timed out: its timeout_key is emitted.
C6_Witness ==
    /\ TimedOut
    /\ Pre.override_remaps = << build_override_table(CtrlFRemap, FALSE) >>
    /\ Out = << KE(KEY_ESC, PRESS), KE(KEY_ESC, RELEASE) >>

(***************************************************************************)
(* C7  A nested override is consumed by one key press.  When the press (or *)
(* repeat) of a key goes through keymap resolution while the stack is not  *)
(* empty, every table of the stack is removed: afterwards the stack holds  *)
(* only tables pushed by Remap actions of that key.  If an override entry  *)
(* of the key is accepted, its actions are dispatched instead of the base  *)
(* keymap's: KEY_SPACE then KEY_F yields KEY_FIND press, release, Delay.   *)
(***************************************************************************)
\* The call handled a key event that went through find_keymap.
KeymapResolved ==
    /\ HandledKey /\ is_pressed(events[1].value)
    /\ Len(returned.trace) > 0
    /\ returned.trace[Len(returned.trace)].stage \in {"matched", "unmatched"}

\* The override entries of key k that pass the modifier checks in handler h.
AcceptedOverride(h, k) ==
    LET Accepted(row) ==
            LET d == diff_modifiers([h EXCEPT !.iter = SeqOfSet(HashKeys)], row.modifiers)
            IN d.missing = << >> /\ (row.exact_match => d.extra = << >>)
    IN SelectSeq(override_entries(h.override_remaps, k), Accepted)

\* The tables the Remap actions for key k push, from the base keymap or from
\* the stack of handler h.
OwnTables(h, k) ==
    LET rows == override_entries(h.override_remaps, k)
        remaps == KeymapRemaps(k)
                  \cup { a \in UNION { SetOfSeq(rows[i].actions) : i \in 1..Len(rows) } :
                            a.type = "Remap" }
    IN { build_override_table(a.remap, x) : a \in remaps, x \in BOOLEAN }

\* The actions of a list that are not events of modifier keys.
Core(acts) ==
    LET NotModifier(a) == ~(a.type = "KeyEvent" /\ a.key \in MODIFIER_KEYS)
    IN SelectSeq(acts, NotModifier)

C7_Input == << EvKey(KEY_SPACE, PRESS), EvKey(KEY_F, PRESS) >>

C7_OverrideConsumed ==
    /\ (KeymapResolved /\ Pre.override_remaps # << >>) =>
          LET k == events[1].code
              rows == AcceptedOverride(Pre, k)
          IN /\ \A i \in 1..Len(override_remaps) : override_remaps[i] \in OwnTables(Pre, k)
             /\ rows # << >> =>
                   LET target == rows[1].actions[1].key_press.key
                   IN /\ returned.trace[Len(returned.trace)].stage = "matched"
                      /\ Core(Out) = << KE(target, PRESS), KE(target, RELEASE), DelayAction >>
    /\ AtStep(C7_Input, 2) =>
          /\ Out = << KE(KEY_FIND, PRESS), KE(KEY_FIND, RELEASE), DelayAction >>
          /\ override_remaps = << >>

\* C-a pressed while the two tables of KEY_SPACE are stacked: KEY_Y, not the
\* KEY_B of the base keymap.
C7_Witness ==
    /\ Handled(KEY_A, PRESS)
    /\ Len(Pre.override_remaps) = 2
    /\ KEY_LEFTCTRL \in Pre.modifiers
    /\ Core(Out) = << KE(KEY_Y, PRESS), KE(KEY_Y, RELEASE), DelayAction >>
    /\ override_remaps = << >>

(***************************************************************************)
(* C8  Override not used.  When the stack is not empty, a timeout key is   *)
(* pending and a non-modifier key is pressed that no override entry is     *)
(* accepted for, the pending timeout key is emitted as press then release, *)
(* the override state is cleared and the key is resolved against the       *)
(* static keymap.                                                          *)
(***************************************************************************)
\* What handling (k, v) returns in handler h with no override set.
StaticOutput(h, k, v, ord) ==
    on_events([h EXCEPT !.override_remaps = << >>, !.override_timeout_key = None,
                        !.override_timer = FALSE, !.iter = ord],
              << EvKey(k, v) >>).actions

C8_PendingKeyFlushed ==
    ( /\ KeymapResolved /\ events[1].value = PRESS
      /\ Pre.override_remaps # << >>
      /\ IsSome(Pre.override_timeout_key)
      /\ AcceptedOverride(Pre, events[1].code) = << >> )
        => LET t == Unwrap(Pre.override_timeout_key)
           IN \E ord \in Orderings(HashKeys) :
                 Out = << KE(t, PRESS), KE(t, RELEASE) >>
                          \o StaticOutput(Pre, events[1].code, PRESS, ord)

(***************************************************************************)
(* C9  Mouse movement is coalesced.  For any batch passed to on_events,    *)
(* the re-emitted relative events with code <= 2 are delivered, in input   *)
(* order, in one MouseMovementEventCollection that is the last action of   *)
(* the returned list; there is at most one such action, none when no       *)
(* motion event was re-emitted, and no motion event is emitted as a        *)
(* RelativeEvent action.                                                   *)
(***************************************************************************)
\* The relative events of batch evs, each with the trace entry of its
\* synthetic PRESS; i is the position in the trace.  Without multi-purpose
\* keys a key event leaves one entry, a relative event two.
RECURSIVE RelativeHandled(_, _)
RelativeHandled(evs, i) ==
    IF evs = << >> THEN << >>
    ELSE LET e == Head(evs)
         IN IF e.type = "KeyEvent" THEN RelativeHandled(Tail(evs), i + 1)
            ELSE IF e.type = "RelativeEvent"
            THEN << [event |-> e, entry |-> returned.trace[i]] >>
                    \o RelativeHandled(Tail(evs), i + 2)
            ELSE RelativeHandled(Tail(evs), i)

\* The synthetic PRESS came back from on_key_event with true.
GotThrough(r) == r.entry.stage # "matched" /\ ~r.entry.emitted

\* The mouse movements of the batch that were re-emitted, as actions.
MotionReemitted ==
    LET Motion(r) == r.event.code <= 2 /\ GotThrough(r)
        rs == SelectSeq(RelativeHandled(events, 1), Motion)
    IN [i \in 1..Len(rs) |-> RelativeEventAction(rs[i].event.code, rs[i].event.value)]

C9_MotionCoalesced ==
    Called =>
        /\ \A i \in 1..Len(Out) :
              /\ Out[i].type = "MouseMovementEventCollection" => i = Len(Out)
              /\ Out[i].type = "RelativeEvent" => Out[i].code > 2
        /\ IF MotionReemitted = << >>
           THEN \A i \in 1..Len(Out) : Out[i].type # "MouseMovementEventCollection"
           ELSE Out[Len(Out)] = MouseMovementEventCollection(MotionReemitted)

\* A REL_Z movement before a wheel event: the wheel event is returned first.
C9_Witness ==
    /\ Called
    /\ events = << EvRelative(REL_Z, 1), EvRelative(REL_WHEEL, 1) >>
    /\ Out = << RelativeEventAction(REL_WHEEL, 1),
                MouseMovementEventCollection(<< RelativeEventAction(REL_Z, 1) >>) >>

(***************************************************************************)
(* C10  Relative-event disguise.  For every relative event of a batch: if  *)
(* a keymap entry matches the synthetic PRESS of the disguised key, the    *)
(* entry's actions are emitted and the original event is not; if a modmap  *)
(* entry replaces the disguised key, press and release of the replacing    *)
(* key are emitted and the original event is not; otherwise the original   *)
(* event (same code and value) is emitted exactly once.  No KeyEvent       *)
(* carries a disguised scancode.                                           *)
(***************************************************************************)
\* The relative events (code, value) the actions acts deliver.
RECURSIVE Delivered(_, _, _)
Delivered(acts, code, value) ==
    IF acts = << >> THEN 0
    ELSE LET a == Head(acts)
             n == IF a.type = "RelativeEvent"
                  THEN IF <<a.code, a.value>> = <<code, value>> THEN 1 ELSE 0
                  ELSE IF a.type = "MouseMovementEventCollection"
                  THEN Delivered(a.events, code, value)
                  ELSE 0
         IN n + Delivered(Tail(acts), code, value)

NoDisguisedKeyEvent ==
    \A i \in 1..Len(Out) :
        Out[i].type = "KeyEvent" => Out[i].key < DISGUISED_EVENT_OFFSETTER

\* As claimed: every relative event that no keymap entry matched is emitted once.
C10_UnmatchedIsReemitted ==
    Called =>
        /\ NoDisguisedKeyEvent
        /\ \A r \in input_device.relative :
              LET Unmatched(x) == /\ <<x.event.code, x.event.value>> = r
                                  /\ x.entry.stage # "matched"
              IN Delivered(Out, r[1], r[2])
                    = Len(SelectSeq(RelativeHandled(events, 1), Unmatched))

C10_Disguise ==
    Called =>
        /\ NoDisguisedKeyEvent
        /\ \A r \in input_device.relative :
              LET Through(x) == /\ <<x.event.code, x.event.value>> = r
                                /\ x.entry.stage # "matched"
                                /\ x.entry.key = disguised_key(x.event)
              IN Delivered(Out, r[1], r[2])
                    = Len(SelectSeq(RelativeHandled(events, 1), Through))
        /\ events = << EvRelative(REL_X, -1) >> =>
              IF KEY_LEFTCTRL \in Pre.modifiers
              THEN Core(Out) = << KE(KEY_B, PRESS), KE(KEY_B, RELEASE), DelayAction >>
              ELSE Out = << MouseMovementEventCollection(<< RelativeEventAction(REL_X, -1) >>) >>
        /\ events = << EvRelative(REL_WHEEL, -1) >> =>
              Out = << KE(KEY_A, PRESS), KE(KEY_A, RELEASE) >>

\* A left movement with Control held: KEY_B and no movement.
C10_Witness ==
    /\ Called
    /\ events = << EvRelative(REL_X, -1) >>
    /\ KEY_LEFTCTRL \in Pre.modifiers
    /\ Core(Out) = << KE(KEY_B, PRESS), KE(KEY_B, RELEASE), DelayAction >>
    /\ Delivered(Out, REL_X, -1) = 0

(***************************************************************************)
(* C11  The disguised scancode.  For every 16-bit relative code the        *)
(* scancode (code*2 + (value<0 ? 1 : 0)) + 59974, computed in u16, is      *)
(* computed without overflow, is >= DISGUISED_EVENT_OFFSETTER, and differs *)
(* from the scancode of every event with another (code, sign(value)).      *)
(***************************************************************************)
\* The call, returned or not, was given exactly one relative event.
RelativeGiven == Len(before) = 1 /\ Len(events) = 1 /\ events[1].type = "RelativeEvent"

\* What the scancode encodes of an event: the code and whether the value is negative.
Slot(event) == << event.code, event.value < 0 >>

C11_DisguiseInjective ==
    RelativeGiven =>
        /\ ~returned.panic
        /\ disguised_key(events[1]) >= DISGUISED_EVENT_OFFSETTER
        /\ \A r \in input_device.relative :
              Slot(EvRelative(r[1], r[2])) # Slot(events[1])
                  => disguised_key(EvRelative(r[1], r[2])) # disguised_key(events[1])

(***************************************************************************)
(* C12  A relative event of value 0.  It is disguised with the scancode    *)
(* code*2 + 59974 of a positive event of the same code, and on_events      *)
(* handles it as it handles the event with value 1 in the same handler     *)
(* state: the same key events are resolved the same way and the same       *)
(* actions are returned, except that the original event, where it is       *)
(* emitted again, carries the value 0.                                     *)
(***************************************************************************)
\* The actions acts with value 0 in place of value 1 in the relative events of code.
RECURSIVE ZeroValued(_, _)
ZeroValued(acts, code) ==
    IF acts = << >> THEN << >>
    ELSE LET a == Head(acts)
             z == IF a.type = "RelativeEvent" /\ a.code = code /\ a.value = 1
                  THEN RelativeEventAction(code, 0)
                  ELSE IF a.type = "MouseMovementEventCollection"
                  THEN MouseMovementEventCollection(ZeroValued(a.events, code))
                  ELSE a
         IN << z >> \o ZeroValued(Tail(acts), code)

C12_ZeroAsPositive ==
    \A r \in input_device.relative :
        (Called /\ events = << EvRelative(r[1], 0) >>) =>
            LET positive == on_events([Pre EXCEPT !.iter = SeqOfSet(HashKeys)],
                                      << EvRelative(r[1], 1) >>)
            IN /\ disguised_key(events[1]) = r[1] * 2 + DISGUISED_EVENT_OFFSETTER
               /\ returned.trace = positive.trace
               /\ Out = ZeroValued(positive.actions, r[1])

\* A horizontal movement of value 0 with no modmap or keymap entry in "web":
\* the event comes back with value 0.
C12_Witness ==
    /\ Called
    /\ events = << EvRelative(REL_X, 0) >>
    /\ application = Some("web")
    /\ Out = << MouseMovementEventCollection(<< RelativeEventAction(REL_X, 0) >>) >>

(***************************************************************************)
(* C13  The modifiers set.  In every reachable state it holds only keys of *)
(* MODIFIER_KEYS and of config.virtual_modifiers.  Over one on_events call *)
(* a key enters it only where the "Apply keymap" loop handled (key, PRESS) *)
(* and leaves it only where the loop handled (key, RELEASE); a call whose  *)
(* (key, value) pairs are all REPEAT leaves the set unchanged.             *)
(***************************************************************************)
\* The "Apply keymap" loop of the call handled the pair (key, value).
LoopHandled(key, value) ==
    \E i \in 1..Len(returned.trace) :
        returned.trace[i].key = key /\ returned.trace[i].value = value

C13_ModifiersSet ==
    /\ modifiers \subseteq MODIFIER_KEYS \cup config.virtual_modifiers
    /\ Called =>
          /\ \A k \in modifiers \ Pre.modifiers : LoopHandled(k, PRESS)
          /\ \A k \in Pre.modifiers \ modifiers : LoopHandled(k, RELEASE)
          /\ (\A i \in 1..Len(returned.trace) : returned.trace[i].value = REPEAT)
                => modifiers = Pre.modifiers

\* KEY_LEFTCTRL repeats while it and the virtual modifier KEY_CAPSLOCK are held.
C13_Witness ==
    /\ Handled(KEY_LEFTCTRL, REPEAT)
    /\ Pre.modifiers = { KEY_LEFTCTRL, KEY_CAPSLOCK }
    /\ modifiers = { KEY_LEFTCTRL, KEY_CAPSLOCK }

(***************************************************************************)
(* C14  escape_next_key.  While escape_next_key is set, exactly the next   *)
(* PRESS of a key that is no modifier skips the keymap: it is emitted      *)
(* unchanged as KeyEvent(k, PRESS) and resets the flag; no other key event *)
(* of such a key consumes the flag.                                        *)
(***************************************************************************)
\* The call handled one key event, which the loop saw as one pair of a key
\* that is no modifier, with escape_next_key set.
EscapePending ==
    /\ HandledKey
    /\ Pre.escape_next_key
    /\ Len(returned.trace) = 1
    /\ returned.trace[1].key \notin MODIFIER_KEYS \cup config.virtual_modifiers

C14_EscapeConsumedByNextPress ==
    EscapePending =>
        IF events[1].value = PRESS
        THEN /\ Out = << KE(returned.trace[1].key, PRESS) >>
             /\ ~escape_next_key
        ELSE escape_next_key

(***************************************************************************)
(* Vocabulary of the properties about KeyPress actions.                    *)
(***************************************************************************)
\* The call handled one key event, for which find_keymap gave actions.
Matched ==
    /\ HandledKey
    /\ Len(returned.trace) = 1
    /\ returned.trace[1].stage = "matched"

\* The actions find_keymap gave.
Found ==
    Unwrap(find_keymap([Pre EXCEPT !.iter = SeqOfSet(HashKeys)], returned.trace[1].key).found)

\* They are one KeyPress, alone or between two SetExtraModifiers.
SingleKeyPress(found) ==
    \/ Len(found) = 1 /\ found[1].action.type = "KeyPress"
    \/ /\ Len(found) = 3
       /\ found[1].action.type = "SetExtraModifiers"
       /\ found[2].action.type = "KeyPress"
       /\ found[3].action.type = "SetExtraModifiers"

Chord(found) == found[(Len(found) + 1) \div 2].action.key_press

\* The modifiers the matching entry did not ask for (self.extra_modifiers
\* during the dispatch).
VirtuallyReleased(found) ==
    IF Len(found) = 3 THEN SetOfSeq(found[1].action.keys) ELSE {}

\* The keys of the required modifiers that no pressed key gives.
Missing(h, required) ==
    LET Lacks(i) == /\ ModifierKey(required[i]) \in MODIFIER_KEYS
                    /\ CASE required[i].kind = "Shift" ->
                               h.modifiers \cap { KEY_LEFTSHIFT, KEY_RIGHTSHIFT } = {}
                          [] required[i].kind = "Control" ->
                               h.modifiers \cap { KEY_LEFTCTRL, KEY_RIGHTCTRL } = {}
                          [] required[i].kind = "Alt" ->
                               h.modifiers \cap { KEY_LEFTALT, KEY_RIGHTALT } = {}
                          [] required[i].kind = "Windows" ->
                               h.modifiers \cap { KEY_LEFTMETA, KEY_RIGHTMETA } = {}
                          [] required[i].kind = "Key" -> required[i].key \notin h.modifiers
        pos == SelectSeq([i \in 1..Len(required) |-> i], Lacks)
    IN [j \in 1..Len(pos) |-> ModifierKey(required[pos[j]])]

\* The pressed keys of MODIFIER_KEYS that no required modifier asks for.
Superfluous(h, required) ==
    { k \in h.modifiers \cap MODIFIER_KEYS :
          \A i \in 1..Len(required) :
              CASE required[i].kind = "Shift" -> k \notin { KEY_LEFTSHIFT, KEY_RIGHTSHIFT }
                [] required[i].kind = "Control" -> k \notin { KEY_LEFTCTRL, KEY_RIGHTCTRL }
                [] required[i].kind = "Alt" -> k \notin { KEY_LEFTALT, KEY_RIGHTALT }
                [] required[i].kind = "Windows" -> k \notin { KEY_LEFTMETA, KEY_RIGHTMETA }
                [] required[i].kind = "Key" -> k # required[i].key }

KeyEvents(keys, value) == [i \in 1..Len(keys) |-> KE(keys[i], value)]

(***************************************************************************)
(* C16  A KeyPress whose required modifiers are exactly the pressed        *)
(* modifiers (each required modifier is given by a pressed key, each       *)
(* pressed modifier key is required) is dispatched with no modifier press  *)
(* or release around it: the call returns exactly [KeyEvent(k, PRESS),     *)
(* KeyEvent(k, RELEASE), Delay].                                           *)
(***************************************************************************)
ExactlyMatched(h, required) ==
    /\ Missing(h, required) = << >>
    /\ \A i \in 1..Len(required) : ModifierKey(required[i]) \in MODIFIER_KEYS
    /\ Superfluous(h, required) = {}
    /\ h.modifiers \subseteq MODIFIER_KEYS

C16_ExactModifiersNoEntourage ==
    Matched =>
        IF SingleKeyPress(Found) /\ ExactlyMatched(Pre, Chord(Found).modifiers)
        THEN Out = << KE(Chord(Found).key, PRESS), KE(Chord(Found).key, RELEASE),
                      DelayAction >>
        ELSE TRUE

\* C-x with KEY_LEFTCTRL held gives C-y: KEY_Y alone is pressed and released.
C16_Witness ==
    /\ Handled(KEY_X, PRESS)
    /\ Pre.modifiers = { KEY_LEFTCTRL }
    /\ Out = << KE(KEY_Y, PRESS), KE(KEY_Y, RELEASE), DelayAction >>

(***************************************************************************)
(* C17  Every KeyPress dispatch emits PRESS of each missing modifier,      *)
(* RELEASE of each extra modifier, PRESS and RELEASE of the main key,      *)
(* Delay, PRESS of each extra modifier and RELEASE of each missing         *)
(* modifier, the extra ones in one order both times; the downstream key    *)
(* state and the modifiers set after the call are those before it.         *)
(***************************************************************************)
C17_EntourageSymmetric ==
    ( Matched /\ SingleKeyPress(Found) ) =>
        LET key_press == Chord(Found)
            missing == Missing(Pre, key_press.modifiers)
        IN /\ \E extra \in Orderings(Superfluous(Pre, key_press.modifiers)
                                          \ VirtuallyReleased(Found)) :
                  Out = KeyEvents(missing, PRESS) \o KeyEvents(extra, RELEASE)
                        \o << KE(key_press.key, PRESS), KE(key_press.key, RELEASE),
                              DelayAction >>
                        \o KeyEvents(extra, PRESS) \o KeyEvents(missing, RELEASE)
           /\ down = before[1].down
           /\ modifiers = Pre.modifiers

\* C-a with KEY_LEFTCTRL held gives Shift-b: KEY_LEFTSHIFT is missing,
\* KEY_LEFTCTRL is extra.
C17_Witness ==
    /\ Handled(KEY_A, PRESS)
    /\ Pre.modifiers = { KEY_LEFTCTRL }
    /\ Out = << KE(KEY_LEFTSHIFT, PRESS), KE(KEY_LEFTCTRL, RELEASE),
                KE(KEY_B, PRESS), KE(KEY_B, RELEASE), DelayAction,
                KE(KEY_LEFTCTRL, PRESS), KE(KEY_LEFTSHIFT, RELEASE) >>

(***************************************************************************)
(* C18  Virtual modifiers.  A key event whose key after the modmap is in   *)
(* config.virtual_modifiers updates the modifiers set (PRESS adds the key, *)
(* RELEASE removes it, REPEAT leaves it) and is not sent: the call returns *)
(* no KeyEvent for that key, and no action at all when no multi-purpose    *)
(* key is pending.                                                         *)
(***************************************************************************)
\* The call handled one key event, which the loop saw as one pair of a
\* virtual modifier.
VirtualHandled ==
    /\ HandledKey
    /\ Len(returned.trace) = 1
    /\ returned.trace[1].key \in config.virtual_modifiers

C18_VirtualModifierSilent ==
    VirtualHandled =>
        LET key == returned.trace[1].key
            value == returned.trace[1].value
        IN /\ modifiers = IF value = PRESS THEN Pre.modifiers \cup {key}
                          ELSE IF value = RELEASE THEN Pre.modifiers \ {key}
                          ELSE Pre.modifiers
           /\ \A i \in 1..Len(Out) : Out[i].type = "KeyEvent" => Out[i].key # key
           /\ DOMAIN Pre.multi_purpose_keys = {} => Out = << >>

\* KEY_Z, pressed in "term" where the modmap makes it KEY_CAPSLOCK, is
\* released in another application: nothing is sent.
C18_Witness ==
    /\ Handled(KEY_Z, RELEASE)
    /\ application = Some("web")
    /\ returned.trace[1].key = KEY_CAPSLOCK
    /\ KEY_CAPSLOCK \in Pre.modifiers
    /\ KEY_CAPSLOCK \notin modifiers
    /\ Out = << >>

(***************************************************************************)
(* C15  The override timer.  Between on_events calls, as long as no        *)
(* timerfd call has failed, the timer is armed if and only if              *)
(* override_remaps is non-empty and its first table was pushed by a Remap  *)
(* with a timeout.  In every state, while override_remaps is empty the     *)
(* timer is not armed and override_timeout_key is None.                    *)
(***************************************************************************)
\* The tables the Remap actions with a timeout push.
TimedTables ==
    UNION { UNION { { build_override_table(e.actions[j].remap, e.exact_match) :
                          j \in { j \in 1..Len(e.actions) :
                                      /\ e.actions[j].type = "Remap"
                                      /\ IsSome(e.actions[j].timeout) } }
                    : e \in { config.keymap_table[k][i] : i \in 1..Len(config.keymap_table[k]) } }
            : k \in DOMAIN config.keymap_table }

FirstTableTimed ==
    IF override_remaps = << >> THEN FALSE ELSE override_remaps[1] \in TimedTables

OwnActions == on_events([Pre EXCEPT !.actions = << >>], events).actions

C20_NoPartialActions ==
    /\ (Len(before) = 1 /\ ~returned.ok) => returned.actions = << >>
    /\ Called => (Out = OwnActions /\ actions = << >>)

(***************************************************************************)
(* C19  The application probe.  current_application() is called at most    *)
(* once for each input event of a batch, a relative event included,        *)
(* whatever the number of modmap and keymap entries with an application    *)
(* matcher that are consulted for it.                                      *)
(***************************************************************************)
C19_ProbeOncePerEvent ==
    (Len(before) = 1 /\ ~returned.panic) => returned.probes <= Len(events)

(***************************************************************************)
(* C21  Exact matches first.  For a pressed key with keymap entries (no    *)
(* Remap, no application matcher), the entry chosen has every required     *)
(* modifier pressed and, when it is an exact_match entry, no other         *)
(* modifier pressed; when some entry has every required modifier pressed   *)
(* and no other modifier is pressed, the first such entry is chosen, even  *)
(* after an entry that matches with other modifiers pressed; no entry is   *)
(* chosen only when none is eligible.                                      *)
(***************************************************************************)
\* The call handled one press or repeat that went to the static keymap.
StaticLookup ==
    /\ HandledKey
    /\ Len(returned.trace) = 1
    /\ returned.trace[1].stage \in { "matched", "unmatched" }
    /\ Pre.override_remaps = << >>
    /\ returned.trace[1].key \in DOMAIN config.keymap_table

Entries == config.keymap_table[returned.trace[1].key]

\* The required modifiers of entry no pressed key gives, and the pressed
\* modifiers it does not require.
Lacking(entry) == diff_modifiers([Pre EXCEPT !.iter = SeqOfSet(HashKeys)], entry.modifiers).missing
Beyond(entry) == diff_modifiers([Pre EXCEPT !.iter = SeqOfSet(HashKeys)], entry.modifiers).extra

ModeAdmits(entry) == IsSome(entry.mode) => Pre.mode \in Unwrap(entry.mode)

ExactlyEligible ==
    { i \in 1..Len(Entries) :
          Lacking(Entries[i]) = << >> /\ Beyond(Entries[i]) = << >> /\ ModeAdmits(Entries[i]) }
Eligible ==
    { i \in 1..Len(Entries) :
          /\ Lacking(Entries[i]) = << >>
          /\ Entries[i].exact_match => Beyond(Entries[i]) = << >>
          /\ ModeAdmits(Entries[i]) }

\* What find_keymap returns when it chooses entry i.
Offer(i) == with_extra_modifiers(Entries[i].actions, Beyond(Entries[i]), Entries[i].exact_match)

First(S) == CHOOSE i \in S : \A j \in S : i <= j

C21_ExactMatchFirst ==
    StaticLookup =>
        IF returned.trace[1].stage = "unmatched" THEN Eligible = {}
        ELSE /\ Found \in { Offer(i) : i \in Eligible }
             /\ ExactlyEligible # {} => Found = Offer(First(ExactlyEligible))
             /\ Out = dispatch_actions([Pre EXCEPT !.iter = SeqOfSet(HashKeys)],
                                       Found, returned.trace[1].key).actions

\* C-x: the entry for KEY_X alone is listed first and matches with Control
\* pressed beyond it, the entry for C-x matches exactly and is chosen.
C21_Witness ==
    /\ Handled(KEY_X, PRESS)
    /\ Pre.modifiers = { KEY_LEFTCTRL }
    /\ Eligible = { 1, 2 }
    /\ Found = Offer(2)
    /\ Out = << KE(KEY_LEFTCTRL, RELEASE), KE(KEY_B, PRESS), KE(KEY_B, RELEASE),
                DelayAction, KE(KEY_LEFTCTRL, PRESS) >>

(***************************************************************************)
(* C22  WithMark(kp).  When mark_set is true and kp does not require       *)
(* Shift, what is emitted is what KeyPress(kp with Shift appended) emits;  *)
(* when mark_set is false or kp requires Shift, what KeyPress(kp) emits;   *)
(* whether or not a Shift key is pressed.                                  *)
(***************************************************************************)
RequiresShift(key_press) ==
    \E i \in 1..Len(key_press.modifiers) : key_press.modifiers[i].kind = "Shift"

\* kp as WithMark is claimed to emit it.
Marked(key_press) ==
    IF Pre.mark_set /\ ~RequiresShift(key_press)
    THEN KeyPress(key_press.key, Append(key_press.modifiers, ModShift))
    ELSE key_press

\* The actions found with KeyPress(Marked(kp)) in place of each WithMark(kp).
AsKeyPresses(found) ==
    [i \in 1..Len(found) |->
        IF found[i].action.type = "WithMark"
        THEN TaggedAction(ActKeyPress(Marked(found[i].action.key_press)), found[i].exact_match)
        ELSE found[i]]

HasWithMark(found) == \E i \in 1..Len(found) : found[i].action.type = "WithMark"

C22_WithMarkAddsShiftOnce ==
    Matched =>
        IF HasWithMark(Found)
        THEN Out = dispatch_actions([Pre EXCEPT !.iter = SeqOfSet(HashKeys)],
                                    AsKeyPresses(Found), returned.trace[1].key).actions
        ELSE TRUE

(***************************************************************************)
(* C23  Parallel nested remaps.  When the first entry the static keymap    *)
(* accepts for a key has Remap actions only, the Remap-only entries        *)
(* accepted in that pass are all collected and one override table is       *)
(* pushed for each of their Remap actions, accepted entries with other     *)
(* actions being ignored.  The timer is armed, and override_timeout_key    *)
(* set to the timeout_key or else to the key, if and only if the Remap of  *)
(* the first table has a timeout; the timeouts of the later ones are       *)
(* ignored.                                                                *)
(***************************************************************************)
\* The entries the pass that finds something accepts.
Accepted == IF ExactlyEligible # {} THEN ExactlyEligible ELSE Eligible

\* The Remap actions of the Remap-only entries among the first n entries
\* that are accepted, each with the exact_match of its entry.
RECURSIVE CollectedRemaps(_)
CollectedRemaps(n) ==
    IF n = 0 THEN << >>
    ELSE CollectedRemaps(n - 1)
         \o (IF n \in Accepted /\ is_remap(Entries[n].actions)
              THEN [j \in 1..Len(Entries[n].actions) |->
                       [remap |-> Entries[n].actions[j], exact_match |-> Entries[n].exact_match]]
              ELSE << >>)

RemapFirst ==
    /\ StaticLookup
    /\ Accepted # {}
    /\ is_remap(Entries[First(Accepted)].actions)

C23_ParallelRemaps ==
    RemapFirst =>
        LET collected == CollectedRemaps(Len(Entries))
            first == collected[1].remap
        IN /\ returned.trace[1].stage = "matched"
           /\ Out = << >>
           /\ override_remaps =
                  [j \in 1..Len(collected) |->
                      build_override_table(collected[j].remap.remap, collected[j].exact_match)]
           /\ override_timer = IsSome(first.timeout)
           /\ override_timeout_key =
                  IF IsSome(first.timeout)
                  THEN IF IsSome(first.timeout_key) THEN first.timeout_key
                       ELSE Some(returned.trace[1].key)
                  ELSE None

\* KEY_SPACE: the remap without timeout comes first, the one with a timeout
\* and the KeyPress after it.  Two tables are pushed and no timer is armed.
C23_Witness ==
    /\ Handled(KEY_SPACE, PRESS)
    /\ RemapFirst
    /\ Accepted = { 1, 2, 3 }
    /\ Len(override_remaps) = 2
    /\ ~override_timer
    /\ override_timeout_key = None

(***************************************************************************)
(* C24  Every cycle of a multi-purpose key (PRESS, REPEATs, RELEASE),      *)
(* whatever other key events come in between, resolves to exactly one of   *)
(* alone or held: (held, PRESS) is produced at most once in the cycle,     *)
(* (held, REPEAT) only after it, the alone key never once held was         *)
(* produced, and at the end of the cycle every produced press has exactly  *)
(* one release of the same key.                                            *)
(***************************************************************************)
\* The cycle of the multi-purpose key p is still pending in the handler.
Pending(p) ==
    /\ p \in DOMAIN multi_purpose_keys
    /\ IsSome(multi_purpose_keys[p].alone_timeout_at)

\* The cycle the RELEASE just handled has ended, with what this call produced.
Ended == tally(Pre.cycle[events[1].code], returned.trace)

ResolvedHeld(c) ==
    /\ c.held_presses = 1 /\ c.held_releases = 1
    /\ c.alone_presses = 0 /\ c.alone_releases = 0

ResolvedAlone(c) ==
    /\ c.alone_presses = 1 /\ c.alone_releases = 1
    /\ c.held_presses = 0 /\ c.held_releases = 0

SetModes(found) ==
    LET IsSetMode(a) == a.action.type = "SetMode"
        sel == SelectSeq(found, IsSetMode)
    IN [j \in 1..Len(sel) |-> sel[j].action.mode]

\* The entries of the key whose modifiers are satisfied, whatever their mode.
ModifiersFit == { i \in 1..Len(Entries) : Lacking(Entries[i]) = << >> }

\* What one call made of the mode it started with.
ModeRule ==
    IF StaticLookup
    THEN IF returned.trace[1].stage = "unmatched"
         THEN /\ \A i \in ModifiersFit : ~ModeAdmits(Entries[i])
              /\ mode = Pre.mode
         ELSE /\ \E i \in ModifiersFit : ModeAdmits(Entries[i]) /\ Found = Offer(i)
              /\ \A i \in 1..Len(Entries) : Found = Offer(i) => ModeAdmits(Entries[i])
              /\ Out = dispatch_actions([Pre EXCEPT !.iter = SeqOfSet(HashKeys)],
                                        Found, returned.trace[1].key).actions
              /\ mode = IF SetModes(Found) = << >> THEN Pre.mode
                        ELSE SetModes(Found)[Len(SetModes(Found))]
    ELSE Called => mode = Pre.mode

C25_ModeGuardsEntries ==
    /\ mode = config.mode
    /\ [][ /\ ModeRule'
           /\ mode' # mode => (StaticLookup' /\ Pre'.mode = mode) ]_vars

\* KEY_X in mode normal, which KEY_A and then KEY_F set: the second entry is
\* chosen, not the first and not the one without modes.
C25_Witness ==
    /\ Handled(KEY_X, PRESS)
    /\ Pre.mode = "normal"
    /\ ModifiersFit = { 1, 2, 3 }
    /\ Found = Offer(2)
    /\ Out[1] = KE(KEY_Y, PRESS)
    /\ mode = "normal"

(***************************************************************************)
(* C26  extra_modifiers is set for the duration of the action list of one  *)
(* matched entry only: after every call of on_events that returns          *)
(* successfully it is empty.  While the actions of a loosely matched entry *)
(* are dispatched, the held modifiers the entry does not require are       *)
(* neither released nor pressed again around its KeyPress emissions.       *)
(***************************************************************************)
\* The call ended successfully.
Succeeded == Len(before) = 1 /\ returned.ok

\* The static keymap chose the loosely matching entry i.
LooselyChosen(i) ==
    /\ StaticLookup
    /\ returned.trace[1].stage = "matched"
    /\ i \in Eligible
    /\ ~Entries[i].exact_match
    /\ Found = Offer(i)

Untouched(keys) ==
    \A j \in 1..Len(Out) : \A n \in 1..Len(keys) :
        Out[j].type = "KeyEvent" => Out[j].key # keys[n]

C26_ExtraModifiersScoped ==
    /\ Succeeded => extra_modifiers = {}
    /\ IF StaticLookup
       THEN \A i \in 1..Len(Entries) : LooselyChosen(i) => Untouched(Beyond(Entries[i]))
       ELSE TRUE

(***************************************************************************)
(* C27  No stuck and no lost modifier downstream.  When no chord key and   *)
(* no override timeout key of the configuration is one of MODIFIER_KEYS,   *)
(* then after every successfully handled input event the MODIFIER_KEYS     *)
(* that the emitted KeyEvents leave pressed are the MODIFIER_KEYS in the   *)
(* modifiers of the handler.                                               *)
(***************************************************************************)
\* The KeyPress and the Remap actions of the static keymap.
KeymapActions ==
    UNION { UNION { { config.keymap_table[k][i].actions[j] :
                          j \in 1..Len(config.keymap_table[k][i].actions) } :
                    i \in 1..Len(config.keymap_table[k]) } :
            k \in DOMAIN config.keymap_table }

\* No chord key and no timeout key is one of MODIFIER_KEYS.
NoModifierEmitted ==
    \A a \in KeymapActions :
        /\ a.type = "KeyPress" => a.key_press.key \notin MODIFIER_KEYS
        /\ a.type = "Remap" => a.timeout_key = None

\* The MODIFIER_KEYS the emitted KeyEvents leave pressed.  No modifier key of
\* the configurations this is used with has two sources, so that a key is left
\* pressed exactly when more presses than releases of it were emitted.
LeftPressed == (DOMAIN down) \cap MODIFIER_KEYS

C27_ModifiersDownstream ==
    (NoModifierEmitted /\ Succeeded) => LeftPressed = modifiers \cap MODIFIER_KEYS

====
